---- MODULE Spec2Model ----
(***************************************************************************)
(* Model of src/zlgcan/zlgcan_wrapper.cpp: the ZlgCanDevice object (its    *)
(* stored device handle and property handle), every instance method as one *)
(* action, and the vendor driver (ZCAN_* functions) as an environment      *)
(* whose answers are chosen nondeterministically.                          *)
(*                                                                         *)
(* Wide integers.  TLC integers are 32 bits, the program's handles are 64  *)
(* bits and its UINT fields 32 bits, so a non-negative integer is held as  *)
(* a little-endian tuple of 16-bit limbs: a JavaScript Number or BigInt    *)
(* magnitude has NumLimbs limbs, a UINT 2 limbs, a 64-bit handle 4 limbs.  *)
(***************************************************************************)
EXTENDS Integers, Sequences, FiniteSets, TLC

VARIABLES
    deviceHandle_,  \* DEVICE_HANDLE deviceHandle_ (0 = INVALID_DEVICE_HANDLE)
    pProperty_,     \* IProperty* pProperty_ (0 = nullptr)
    alive,          \* FALSE once ~ZlgCanDevice has run
    devOpened,      \* driver: number of successful ZCAN_OpenDevice calls
    devCloses,      \* driver: ZCAN_CloseDevice calls received, per handle
    propGot,        \* driver: number of successful ::GetIProperty calls
    propReleases,   \* driver: ::ReleaseIProperty calls received, per handle
    issued,         \* channel handles ZCAN_InitCAN has returned so far
    supplied,       \* the config and frame arguments the consumer passes
    rxQueue,        \* driver: the frames waiting to be received, per kind
    last,           \* the last method invocation: input, outcome, driver calls
    registry,       \* HandleRegistry: the subscription of each channel handle
    subscriptions,  \* every subscription created so far, in creation order
    pending,        \* driver: the frames waiting for the poll loops, per handle
    main,           \* the consumer's thread: the call it is in, and its step
    misdelivered    \* TRUE once a worker delivered through a released sink

\* the state of the asynchronous receive subscriptions
subVars == <<registry, subscriptions, pending, main, misdelivered>>

vars == <<deviceHandle_, pProperty_, alive, devOpened, devCloses, propGot,
          propReleases, issued, supplied, rxQueue, last, registry,
          subscriptions, pending, main, misdelivered>>

----------------------------------------------------------------------------
(* Bounds of the model. *)

\* successful driver opens in one run
MaxOpens == 2
\* successful ::GetIProperty calls in one run
MaxProps == 2
\* frames in one transmit batch
MaxBatch == 2
\* bytes a caller's data array may hold beyond the format's maximum
MaxExtra == 1

\* subscriptions created in one run
MaxSubs == 2

\* frames the driver holds for the poll loop of one channel
MaxPending == 2

----------------------------------------------------------------------------
(* Program constants (zlgcan.h values used by the wrapper). *)

INVALID_DEVICE_HANDLE == 0
NullProperty == 0
STATUS_ERR == 0
STATUS_OK == 1
STATUS_ONLINE == 2
STATUS_OFFLINE == 3
TYPE_CAN == 0
TYPE_CANFD == 1
CAN_MAX_DLEN == 8
CANFD_MAX_DLEN == 64
DefaultTiming1 == 28
\* representation: 16-bit limbs, NumLimbs of them for a JavaScript integer
LimbBase == 65536
NumLimbs == 5
\* significand width of a JavaScript Number (IEEE-754 double)
MantissaBits == 53

----------------------------------------------------------------------------
(* Wide integers as limb tuples. *)

Min(a, b) == IF a < b THEN a ELSE b

Pow2(k) == IF k = 0 THEN 1 ELSE IF k = 1 THEN 2 ELSE IF k = 2 THEN 4
    ELSE IF k = 3 THEN 8 ELSE IF k = 4 THEN 16 ELSE IF k = 5 THEN 32
    ELSE IF k = 6 THEN 64 ELSE IF k = 7 THEN 128 ELSE IF k = 8 THEN 256
    ELSE IF k = 9 THEN 512 ELSE IF k = 10 THEN 1024 ELSE IF k = 11 THEN 2048
    ELSE IF k = 12 THEN 4096 ELSE IF k = 13 THEN 8192 ELSE IF k = 14 THEN 16384
    ELSE IF k = 15 THEN 32768 ELSE 65536

\* a small natural (< 2^31) as a JavaScript Number
Num(x) == [i \in 1..NumLimbs |->
             IF i = 1 THEN x % LimbBase
             ELSE IF i = 2 THEN x \div LimbBase ELSE 0]

\* limbs li..lj of w, zero-extended
Limbs(w, n) == [i \in 1..n |-> IF i <= Len(w) THEN w[i] ELSE 0]

IsZero(w) == \A i \in 1..Len(w) : w[i] = 0

\* bit b (0 = least significant) of w
Bit(w, b) == (w[(b \div 16) + 1] \div Pow2(b % 16)) % 2

\* index of the most significant set bit of w, -1 for zero
Msb(w) ==
    LET set == {b \in 0..(16 * Len(w) - 1) : Bit(w, b) = 1}
    IN IF set = {} THEN 0 - 1 ELSE CHOOSE b \in set : \A c \in set : c <= b

\* w + amount * LimbBase^(from-1), carried through the higher limbs
RECURSIVE AddAt(_, _, _)
AddAt(w, from, amount) ==
    IF amount = 0 \/ from > Len(w) THEN w
    ELSE LET s == w[from] + amount
         IN AddAt([w EXCEPT ![from] = s % LimbBase], from + 1, s \div LimbBase)

\* the IEEE-754 double nearest to the integer w (round to nearest, ties to
\* even): what a JavaScript Number can hold of w
RoundToDouble(w) ==
    LET v == Limbs(w, NumLimbs)
        k == Msb(v) - (MantissaBits - 1)
    IN IF k <= 0 THEN v
       ELSE LET low  == v[1] % Pow2(k)
                half == Pow2(k - 1)
                odd  == (v[1] \div Pow2(k)) % 2 = 1
                cut  == [v EXCEPT ![1] = v[1] - low]
            IN IF low > half \/ (low = half /\ odd)
               THEN AddAt(cut, 1, Pow2(k)) ELSE cut

IsDouble(w) == RoundToDouble(w) = Limbs(w, NumLimbs)

----------------------------------------------------------------------------
(* JavaScript values crossing the N-API boundary. *)

JsNull == [t |-> "Null"]
JsBool(b) == [t |-> "Boolean", b |-> b]
JsNum(v) == [t |-> "Number", v |-> Limbs(v, NumLimbs)]
JsBigInt(mag) == [t |-> "BigInt", mag |-> Limbs(mag, NumLimbs)]
JsStr(s) == [t |-> "String", s |-> s]
JsObj(fields) == [t |-> "Object", f |-> fields]
JsArr(elems) == [t |-> "Array", e |-> elems]
JsFalse == JsBool(FALSE)
JsTrue == JsBool(TRUE)

\* Napi::Number::Uint32Value(): the value modulo 2^32
Uint32Value(n) == Limbs(SubSeq(n.v, 1, 2), 2)

\* static_cast<BYTE>(UINT), static_cast<USHORT>(UINT)
ToBYTE(u) == u[1] % 256
ToUSHORT(u) == u[1]

U32(x) == Limbs(Num(x), 2)
Zero64 == <<0, 0, 0, 0>>
INT64_MAX == <<65535, 65535, 65535, 32767>>
INT64_MIN == <<0, 0, 0, 32768>>

\* Napi::BigInt::Uint64Value(&lossless): the low 64 bits; the lossless flag
\* is read by nobody
Uint64Value(b) == Limbs(SubSeq(b.mag, 1, 4), 4)

\* Napi::Number::Int64Value() reinterpreted as uintptr_t, for a non-negative
\* integral double: exact below 2^63; at or above 2^63 the conversion is out
\* of range and the engine either saturates or yields INT64_MIN
Int64Value(n) ==
    IF n.v[5] = 0 /\ n.v[4] < 32768 THEN {Limbs(SubSeq(n.v, 1, 4), 4)}
    ELSE {INT64_MAX, INT64_MIN}

\* Napi::BigInt::New(env, uint64_t)
BigIntNew(h) == JsBigInt(h)

\* line 19-20: a pending TypeError and the null handle returned with it
NotAHandle == [exc |-> TRUE, h |-> Zero64]

\* GetChannelHandleFromValue: the handles the call can yield, or a pending
\* TypeError (exc) with a null handle
GetChannelHandleFromValue(value) ==
    IF value.t = "BigInt" THEN {[exc |-> FALSE, h |-> Uint64Value(value)]}
    ELSE IF value.t = "Number"
         THEN {[exc |-> FALSE, h |-> r] : r \in Int64Value(value)}
    ELSE {NotAHandle}

----------------------------------------------------------------------------
(* The record of one method invocation. *)

NoCalls == <<>>

\* op: the method; dev0/prop0: deviceHandle_ and pProperty_ on entry;
\* err: the exception thrown ("none" when the method returned);
\* ret: the value returned; calls: the driver calls made, in order;
\* in: the arguments
Invocation(op, in, err, ret, calls) ==
    [op |-> op, dev0 |-> deviceHandle_, prop0 |-> pProperty_, in |-> in,
     err |-> err, ret |-> ret, calls |-> calls]

\* a variant in which the method has called the driver before it throws
ThrowsAfterDriverCall(op, in, err) == Invocation(op, in, err, JsNull, <<op>>)

Throws(op, in, err) == Invocation(op, in, err, JsNull, NoCalls)

\* the channel handles subscriptions are made for
SubHandles == {<<4096, 0, 0, 0>>, <<8192, 0, 0, 0>>}

\* no subscription: id 0
NoSubscription == [h \in SubHandles |-> 0]

\* the channel on which frames arrive
BusyHandle == <<4096, 0, 0, 0>>

\* the frames the driver will hand to the poll loop of each channel, in
\* arrival order: MaxPending frames on one channel, one frame on the others
FullChannels ==
    [h \in SubHandles |->
        [i \in 1..(IF h = BusyHandle THEN MaxPending ELSE 1) |-> i]]

\* the consumer's thread is in no call
Idle == [op |-> "idle", phase |-> "none", h |-> <<>>, cb |-> 0,
         id |-> 0, todo |-> {}]

\* a driver with no frame waiting on the channel (classic, fd) or on the
\* device (merged)
NoFrames == [classic |-> <<>>, fd |-> <<>>, merged |-> <<>>]

\* the state after construction (line 116), with the consumer's arguments
\* drawn from inputs and the driver's waiting frames from queues
InitFrom(inputs, queues) ==
    /\ supplied \in inputs
    /\ rxQueue \in queues
    /\ registry = NoSubscription
    /\ subscriptions = <<>>
    /\ pending = FullChannels
    /\ main = Idle
    /\ misdelivered = FALSE
    /\ deviceHandle_ = INVALID_DEVICE_HANDLE
    /\ pProperty_ = NullProperty
    /\ alive = TRUE
    /\ devOpened = 0
    /\ devCloses = [h \in 1..MaxOpens |-> 0]
    /\ propGot = 0
    /\ propReleases = [p \in 1..MaxProps |-> 0]
    /\ issued = {}
    /\ last = [op |-> "new", dev0 |-> INVALID_DEVICE_HANDLE,
               prop0 |-> NullProperty, in |-> <<>>, err |-> "none",
               ret |-> JsNull, calls |-> NoCalls]

InitWith(inputs) == InitFrom(inputs, {NoFrames})

----------------------------------------------------------------------------
(* Driver bookkeeping. *)

\* the driver receives ::ReleaseIProperty(p)
DriverReleased(p) == [propReleases EXCEPT ![p] = @ + 1]

\* the driver receives ZCAN_CloseDevice(h)
DriverClosed(h) == [devCloses EXCEPT ![h] = @ + 1]

\* what ZCAN_OpenDevice can answer: the invalid handle, or a fresh one
OpenAnswers ==
    {INVALID_DEVICE_HANDLE} \cup
        (IF devOpened < MaxOpens THEN {devOpened + 1} ELSE {})

\* what ::GetIProperty can answer: nullptr, or a fresh property object
PropertyAnswers ==
    {NullProperty} \cup (IF propGot < MaxProps THEN {propGot + 1} ELSE {})

StatusAnswers == {STATUS_OK, STATUS_ERR}

----------------------------------------------------------------------------
(* Device operations. *)

OpenArgs == {<<JsNum(Num(1))>>, <<JsNum(Num(1)), JsNum(Num(0))>>,
             <<JsNum(Num(1)), JsNum(Num(0)), JsNum(Num(0))>>}

\* a variant in which a failed open keeps the handle held before
OpenStoredKeepOnFailure(answer) ==
    IF answer = INVALID_DEVICE_HANDLE THEN deviceHandle_ ELSE answer

\* the handle OpenDevice stores from the driver's answer
OpenStored(answer) == answer

OpenDevice(info) ==
    /\ alive
    /\ UNCHANGED <<supplied, rxQueue, subVars>>
    /\ IF Len(info) < 2
       THEN /\ last' = Throws("openDevice", info, "TypeError")
            /\ UNCHANGED <<deviceHandle_, devOpened>>
       ELSE \E answer \in OpenAnswers :
            LET call == [fn |-> "ZCAN_OpenDevice",
                         type |-> Uint32Value(info[1]),
                         index |-> Uint32Value(info[2]),
                         reserved |-> IF Len(info) > 2
                                      THEN Uint32Value(info[3]) ELSE U32(0),
                         answer |-> answer]
            IN /\ deviceHandle_' = OpenStored(answer)
               /\ devOpened' = IF answer # INVALID_DEVICE_HANDLE
                               THEN devOpened + 1 ELSE devOpened
               /\ last' = Invocation("openDevice", info, "none",
                            JsBool(deviceHandle_' # INVALID_DEVICE_HANDLE),
                            <<call>>)
    /\ UNCHANGED <<pProperty_, alive, devCloses, propGot, propReleases, issued>>

\* lines 152-155 of CloseDevice and 120-123 of the destructor: release a
\* held property handle; the driver calls made
ReleaseHeld == IF pProperty_ # NullProperty
               THEN <<[fn |-> "ReleaseIProperty", prop |-> pProperty_]>>
               ELSE NoCalls

\* a variant in which the already-closed guard of CloseDevice is missing
CloseIsNoopNever == FALSE

\* whether CloseDevice returns before calling the driver close
CloseIsNoop == deviceHandle_ = INVALID_DEVICE_HANDLE

\* a variant in which CloseDevice reports success whatever the driver status
CloseResultAlways(status) == TRUE

\* the boolean CloseDevice returns for a driver status
CloseResult(status) == status = STATUS_OK

\* what CloseDevice does to the object and the driver
CloseDeviceBody ==
    /\ alive
    /\ UNCHANGED <<supplied, rxQueue>>
    /\ pProperty_' = NullProperty
    /\ propReleases' = IF pProperty_ # NullProperty
                       THEN DriverReleased(pProperty_) ELSE propReleases
    /\ IF CloseIsNoop
       THEN /\ last' = Invocation("closeDevice", <<>>, "none", JsFalse,
                                  ReleaseHeld)
            /\ UNCHANGED <<deviceHandle_, devCloses>>
       ELSE \E status \in StatusAnswers :
            /\ devCloses' = DriverClosed(deviceHandle_)
            /\ deviceHandle_' = INVALID_DEVICE_HANDLE
            /\ last' = Invocation("closeDevice", <<>>, "none",
                         JsBool(CloseResult(status)),
                         ReleaseHeld \o <<[fn |-> "ZCAN_CloseDevice",
                                           dev |-> deviceHandle_,
                                           status |-> status]>>)
    /\ UNCHANGED <<alive, devOpened, propGot, issued>>

CloseDevice == CloseDeviceBody /\ UNCHANGED subVars

\* ~ZlgCanDevice
Destroy ==
    /\ alive
    /\ UNCHANGED <<supplied, rxQueue, subVars>>
    /\ alive' = FALSE
    /\ pProperty_' = NullProperty
    /\ propReleases' = IF pProperty_ # NullProperty
                       THEN DriverReleased(pProperty_) ELSE propReleases
    /\ deviceHandle_' = INVALID_DEVICE_HANDLE
    /\ devCloses' = IF deviceHandle_ # INVALID_DEVICE_HANDLE
                    THEN DriverClosed(deviceHandle_) ELSE devCloses
    /\ last' = Invocation("~ZlgCanDevice", <<>>, "none", JsNull,
                 ReleaseHeld \o
                 (IF deviceHandle_ # INVALID_DEVICE_HANDLE
                  THEN <<[fn |-> "ZCAN_CloseDevice", dev |-> deviceHandle_]>>
                  ELSE NoCalls))
    /\ UNCHANGED <<devOpened, propGot, issued>>

\* the guard "if (deviceHandle_ == INVALID_DEVICE_HANDLE)" that opens the
\* methods working on the stored device handle
\* a variant in which no method tests the device handle
DeviceNotOpenNever == FALSE

DeviceNotOpen == deviceHandle_ = INVALID_DEVICE_HANDLE

\* GetDeviceInfo and GetDeviceInfoEx: same shape, different driver function
DeviceInfoOp(op, fn) ==
    /\ alive
    /\ UNCHANGED <<supplied, rxQueue, subVars>>
    /\ IF DeviceNotOpen
       THEN last' = Throws(op, <<>>, "NotOpen")
       ELSE \E status \in StatusAnswers :
            last' = Invocation(op, <<>>, "none",
                      IF status # STATUS_OK THEN JsNull ELSE JsObj(<<>>),
                      <<[fn |-> fn, dev |-> deviceHandle_, status |-> status]>>)
    /\ UNCHANGED <<deviceHandle_, pProperty_, alive, devOpened, devCloses,
                   propGot, propReleases, issued>>

GetDeviceInfo == DeviceInfoOp("getDeviceInfo", "ZCAN_GetDeviceInf")

GetDeviceInfoEx == DeviceInfoOp("getDeviceInfoEx", "ZCAN_GetDeviceInfoEx")

OnLineAnswers == {STATUS_ONLINE, STATUS_OFFLINE}

IsDeviceOnLine ==
    /\ alive
    /\ UNCHANGED <<supplied, rxQueue, subVars>>
    /\ IF DeviceNotOpen
       THEN last' = Invocation("isDeviceOnLine", <<>>, "none", JsFalse,
                               NoCalls)
       ELSE \E status \in OnLineAnswers :
            last' = Invocation("isDeviceOnLine", <<>>, "none",
                      JsBool(status = STATUS_ONLINE),
                      <<[fn |-> "ZCAN_IsDeviceOnLine", dev |-> deviceHandle_,
                         status |-> status]>>)
    /\ UNCHANGED <<deviceHandle_, pProperty_, alive, devOpened, devCloses,
                   propGot, propReleases, issued>>

----------------------------------------------------------------------------
(* Property operations. *)

PathArgs == {<<>>, <<JsStr("path")>>, <<JsStr("path"), JsStr("value")>>}

SetValue(info) ==
    /\ alive
    /\ UNCHANGED <<supplied, rxQueue, subVars>>
    /\ IF DeviceNotOpen
       THEN last' = Throws("setValue", info, "NotOpen")
       ELSE IF Len(info) < 2
       THEN last' = Throws("setValue", info, "TypeError")
       ELSE \E status \in StatusAnswers :
            last' = Invocation("setValue", info, "none", JsNum(Num(status)),
                      <<[fn |-> "ZCAN_SetValue", dev |-> deviceHandle_,
                         path |-> info[1].s, value |-> info[2].s,
                         status |-> status]>>)
    /\ UNCHANGED <<deviceHandle_, pProperty_, alive, devOpened, devCloses,
                   propGot, propReleases, issued>>

\* the string ZCAN_GetValue yields for a path it knows
ValueRead == JsStr("value")

GetValue(info) ==
    /\ alive
    /\ UNCHANGED <<supplied, rxQueue, subVars>>
    /\ IF DeviceNotOpen
       THEN last' = Throws("getValue", info, "NotOpen")
       ELSE IF Len(info) < 1
       THEN last' = Throws("getValue", info, "TypeError")
       ELSE \E found \in BOOLEAN :
            last' = Invocation("getValue", info, "none",
                      IF found THEN ValueRead ELSE JsNull,
                      <<[fn |-> "ZCAN_GetValue", dev |-> deviceHandle_,
                         path |-> info[1].s, found |-> found]>>)
    /\ UNCHANGED <<deviceHandle_, pProperty_, alive, devOpened, devCloses,
                   propGot, propReleases, issued>>

\* a variant in which getIProperty overwrites the held property handle without
\* releasing it first
GetIPropertyKeepPrevious ==
    /\ alive
    /\ UNCHANGED <<supplied, rxQueue, subVars>>
    /\ IF DeviceNotOpen
       THEN /\ last' = Throws("getIProperty", <<>>, "NotOpen")
            /\ UNCHANGED <<pProperty_, propGot>>
       ELSE \E answer \in PropertyAnswers :
            /\ pProperty_' = answer
            /\ propGot' = IF answer # NullProperty THEN propGot + 1
                          ELSE propGot
            /\ last' = Invocation("getIProperty", <<>>, "none",
                         JsBool(answer # NullProperty),
                         <<[fn |-> "GetIProperty", dev |-> deviceHandle_,
                            answer |-> answer]>>)
    /\ UNCHANGED <<deviceHandle_, alive, devOpened, devCloses, propReleases,
                   issued>>

GetIProperty ==
    /\ alive
    /\ UNCHANGED <<supplied, rxQueue, subVars>>
    /\ IF DeviceNotOpen
       THEN /\ last' = Throws("getIProperty", <<>>, "NotOpen")
            /\ UNCHANGED <<pProperty_, propGot, propReleases>>
       ELSE \E answer \in PropertyAnswers :
            /\ propReleases' = IF pProperty_ # NullProperty
                               THEN DriverReleased(pProperty_)
                               ELSE propReleases
            /\ pProperty_' = answer
            /\ propGot' = IF answer # NullProperty THEN propGot + 1
                          ELSE propGot
            /\ last' = Invocation("getIProperty", <<>>, "none",
                         JsBool(answer # NullProperty),
                         ReleaseHeld \o <<[fn |-> "GetIProperty",
                                           dev |-> deviceHandle_,
                                           answer |-> answer]>>)
    /\ UNCHANGED <<deviceHandle_, alive, devOpened, devCloses, issued>>

\* the guard "if (pProperty_ == nullptr)" of the IProperty methods
NoProperty == pProperty_ = NullProperty

SetPropertyValue(info) ==
    /\ alive
    /\ UNCHANGED <<supplied, rxQueue, subVars>>
    /\ IF NoProperty
       THEN last' = Throws("setPropertyValue", info, "NoProperty")
       ELSE IF Len(info) < 2
       THEN last' = Throws("setPropertyValue", info, "TypeError")
       ELSE \E status \in StatusAnswers :
            last' = Invocation("setPropertyValue", info, "none",
                      JsNum(Num(status)),
                      <<[fn |-> "IProperty::SetValue", prop |-> pProperty_,
                         path |-> info[1].s, value |-> info[2].s,
                         status |-> status]>>)
    /\ UNCHANGED <<deviceHandle_, pProperty_, alive, devOpened, devCloses,
                   propGot, propReleases, issued>>

GetPropertyValue(info) ==
    /\ alive
    /\ UNCHANGED <<supplied, rxQueue, subVars>>
    /\ IF NoProperty
       THEN last' = Throws("getPropertyValue", info, "NoProperty")
       ELSE IF Len(info) < 1
       THEN last' = Throws("getPropertyValue", info, "TypeError")
       ELSE \E found \in BOOLEAN :
            last' = Invocation("getPropertyValue", info, "none",
                      IF found THEN ValueRead ELSE JsNull,
                      <<[fn |-> "IProperty::GetValue", prop |-> pProperty_,
                         path |-> info[1].s, found |-> found]>>)
    /\ UNCHANGED <<deviceHandle_, pProperty_, alive, devOpened, devCloses,
                   propGot, propReleases, issued>>

ReleaseIProperty ==
    /\ alive
    /\ UNCHANGED <<supplied, rxQueue, subVars>>
    /\ IF NoProperty
       THEN /\ last' = Invocation("releaseIProperty", <<>>, "none",
                                  JsFalse, NoCalls)
            /\ UNCHANGED <<pProperty_, propReleases>>
       ELSE \E status \in StatusAnswers :
            /\ propReleases' = DriverReleased(pProperty_)
            /\ pProperty_' = NullProperty
            /\ last' = Invocation("releaseIProperty", <<>>, "none",
                         JsBool(status = STATUS_OK),
                         <<[fn |-> "ReleaseIProperty", prop |-> pProperty_,
                            status |-> status]>>)
    /\ UNCHANGED <<deviceHandle_, alive, devOpened, devCloses, propGot, issued>>

----------------------------------------------------------------------------
(* Channel handles. *)

\* the value exported as INVALID_CHANNEL_HANDLE
INVALID_CHANNEL_HANDLE == Zero64

\* 2^53 + 1: the smallest handle no JavaScript Number holds
HandleAbove53 == <<1, 0, 0, 32>>

\* handles ZCAN_InitCAN can answer: the sentinel, a small pointer, a pointer
\* above 2^53
ChannelHandleValues ==
    {INVALID_CHANNEL_HANDLE, <<4096, 0, 0, 0>>, HandleAbove53}

\* handle arguments that are no issued handle: the exported sentinel; a BigInt
\* wider than 64 bits; a string
ForeignHandleArgs ==
    {[v |-> JsBigInt(INVALID_CHANNEL_HANDLE), origin |-> <<>>],
     [v |-> JsBigInt(<<5, 0, 0, 0, 1>>), origin |-> <<>>],
     [v |-> JsStr("0x1000"), origin |-> <<>>]}

\* channel-handle arguments a consumer passes: a handle it was given, as the
\* BigInt it received or as the Number nearest to it (origin: the driver's
\* handle); the exported sentinel; a BigInt wider than 64 bits; a string
HandleArgs ==
    {[v |-> BigIntNew(h), origin |-> h] : h \in issued}
    \cup {[v |-> JsNum(RoundToDouble(h)), origin |-> h] : h \in issued}
    \cup ForeignHandleArgs

\* info: the arguments; origin: the driver handle info[1] stands for
ChannelIn(info, origin) == [args |-> info, origin |-> origin]

----------------------------------------------------------------------------
(* Channel operations that return the driver's status as a boolean. *)

\* the boolean returned for a driver status
StatusResult(status) == status = STATUS_OK

\* StartCanChannel, ResetCanChannel, ClearBuffer
ChannelStatusOp(op, fn, info, origin) ==
    /\ alive
    /\ UNCHANGED <<supplied, rxQueue, subVars>>
    /\ IF Len(info) < 1
       THEN last' = Throws(op, ChannelIn(info, origin), "TypeError")
       ELSE \E r \in GetChannelHandleFromValue(info[1]) :
            IF r.exc
            THEN last' = Throws(op, ChannelIn(info, origin), "TypeError")
            ELSE \E status \in StatusAnswers :
                 last' = Invocation(op, ChannelIn(info, origin), "none",
                           JsBool(StatusResult(status)),
                           <<[fn |-> fn, ch |-> r.h, status |-> status]>>)
    /\ UNCHANGED <<deviceHandle_, pProperty_, alive, devOpened, devCloses,
                   propGot, propReleases, issued>>

StartCanChannel(info, origin) ==
    ChannelStatusOp("startCanChannel", "ZCAN_StartCAN", info, origin)

ResetCanChannel(info, origin) ==
    ChannelStatusOp("resetCanChannel", "ZCAN_ResetCAN", info, origin)

ClearBuffer(info, origin) ==
    ChannelStatusOp("clearBuffer", "ZCAN_ClearBuffer", info, origin)

----------------------------------------------------------------------------
(* Status readback. *)

\* snapshots the driver may write into the zeroed ZCAN_CHANNEL_ERR_INFO
ErrInfoAnswers ==
    {[error_code |-> 0, passive_ErrData |-> <<0, 0, 0>>, arLost_ErrData |-> 0],
     [error_code |-> 4, passive_ErrData |-> <<1, 2, 3>>, arLost_ErrData |-> 5]}

ReadChannelErrInfo(info, origin) ==
    /\ alive
    /\ UNCHANGED <<supplied, rxQueue, subVars>>
    /\ IF Len(info) < 1
       THEN last' = Throws("readChannelErrInfo", ChannelIn(info, origin),
                           "TypeError")
       ELSE \E r \in GetChannelHandleFromValue(info[1]) :
            IF r.exc
            THEN last' = Throws("readChannelErrInfo", ChannelIn(info, origin),
                                "TypeError")
            ELSE \E status \in StatusAnswers, e \in ErrInfoAnswers :
                 last' = Invocation("readChannelErrInfo",
                           ChannelIn(info, origin), "none",
                           IF status # STATUS_OK THEN JsNull
                           ELSE JsObj([errorCode |-> Num(e.error_code),
                                       passiveErrData |->
                                           [i \in 1..3 |->
                                               Num(e.passive_ErrData[i])],
                                       arLostErrData |->
                                           Num(e.arLost_ErrData)]),
                           <<[fn |-> "ZCAN_ReadChannelErrInfo", ch |-> r.h,
                              status |-> status, out |-> e]>>)
    /\ UNCHANGED <<deviceHandle_, pProperty_, alive, devOpened, devCloses,
                   propGot, propReleases, issued>>

\* snapshots the driver may write into the zeroed ZCAN_CHANNEL_STATUS
ChannelStatusAnswers ==
    {[errInterrupt |-> 0, regMode |-> 0, regStatus |-> 0, regALCapture |-> 0,
      regECCapture |-> 0, regEWLimit |-> 0, regRECounter |-> 0,
      regTECounter |-> 0],
     [errInterrupt |-> 1, regMode |-> 2, regStatus |-> 3, regALCapture |-> 4,
      regECCapture |-> 5, regEWLimit |-> 96, regRECounter |-> 7,
      regTECounter |-> 8]}

ReadChannelStatus(info, origin) ==
    /\ alive
    /\ UNCHANGED <<supplied, rxQueue, subVars>>
    /\ IF Len(info) < 1
       THEN last' = Throws("readChannelStatus", ChannelIn(info, origin),
                           "TypeError")
       ELSE \E r \in GetChannelHandleFromValue(info[1]) :
            IF r.exc
            THEN last' = Throws("readChannelStatus", ChannelIn(info, origin),
                                "TypeError")
            ELSE \E status \in StatusAnswers, st \in ChannelStatusAnswers :
                 last' = Invocation("readChannelStatus",
                           ChannelIn(info, origin), "none",
                           IF status # STATUS_OK THEN JsNull
                           ELSE JsObj([f \in DOMAIN st |-> Num(st[f])]),
                           <<[fn |-> "ZCAN_ReadChannelStatus", ch |-> r.h,
                              status |-> status, out |-> st]>>)
    /\ UNCHANGED <<deviceHandle_, pProperty_, alive, devOpened, devCloses,
                   propGot, propReleases, issued>>

\* pending-frame counts the driver may report
ReceiveNumAnswers == {0, 3}

\* info[2], when given, is the frame type (TYPE_CAN by default); the driver
\* returns a count and nothing else, whether or not its query failed
GetReceiveNum(info, origin) ==
    /\ alive
    /\ UNCHANGED <<supplied, rxQueue, subVars>>
    /\ IF Len(info) < 1
       THEN last' = Throws("getReceiveNum", ChannelIn(info, origin),
                           "TypeError")
       ELSE \E r \in GetChannelHandleFromValue(info[1]) :
            IF r.exc
            THEN last' = Throws("getReceiveNum", ChannelIn(info, origin),
                                "TypeError")
            ELSE \E count \in ReceiveNumAnswers, failed \in BOOLEAN :
                 last' = Invocation("getReceiveNum", ChannelIn(info, origin),
                           "none", JsNum(Num(count)),
                           <<[fn |-> "ZCAN_GetReceiveNum", ch |-> r.h,
                              type |-> IF Len(info) > 1
                                       THEN ToBYTE(Uint32Value(info[2]))
                                       ELSE TYPE_CAN,
                              failed |-> failed, count |-> count]>>)
    /\ UNCHANGED <<deviceHandle_, pProperty_, alive, devOpened, devCloses,
                   propGot, propReleases, issued>>

----------------------------------------------------------------------------
(* Channel initialization. *)

AllOnes32 == <<65535, 65535>>

Has(obj, name) == name \in DOMAIN obj.f

\* a UINT narrowed to the width of the struct field it is stored in
Narrow(width, u) ==
    IF width = "BYTE" THEN <<ToBYTE(u), 0>>
    ELSE IF width = "USHORT" THEN <<ToUSHORT(u), 0>>
    ELSE u

\* a variant in which every absent option is left at the memset's zero
ConfigFieldZeroDefault(config, name, width, default) ==
    IF Has(config, name)
    THEN Narrow(width, Uint32Value(config.f[name]))
    ELSE U32(0)

\* config.Has(name) ? cast(config.Get(name).Uint32Value()) : default
ConfigField(config, name, width, default) ==
    IF Has(config, name)
    THEN Narrow(width, Uint32Value(config.f[name]))
    ELSE default

\* lines 280-321: the zeroed ZCAN_CHANNEL_INIT_CONFIG with the active variant
\* of its union filled in
BuildInitConfig(config) ==
    LET can_type == Uint32Value(config.f["canType"])
    IN IF can_type = U32(TYPE_CAN)
       THEN [can_type |-> can_type,
             can |-> [acc_code |-> ConfigField(config, "accCode", "UINT", U32(0)),
                      acc_mask |-> ConfigField(config, "accMask", "UINT", AllOnes32),
                      reserved |-> ConfigField(config, "reserved", "UINT", U32(0)),
                      filter   |-> ConfigField(config, "filter", "BYTE", U32(0)),
                      timing0  |-> ConfigField(config, "timing0", "BYTE", U32(0)),
                      timing1  |-> ConfigField(config, "timing1", "BYTE",
                                               U32(DefaultTiming1)),
                      mode     |-> ConfigField(config, "mode", "BYTE", U32(0))]]
       ELSE [can_type |-> can_type,
             canfd |-> [acc_code |-> ConfigField(config, "accCode", "UINT", U32(0)),
                        acc_mask |-> ConfigField(config, "accMask", "UINT", AllOnes32),
                        abit_timing |-> ConfigField(config, "abitTiming", "UINT", U32(0)),
                        dbit_timing |-> ConfigField(config, "dbitTiming", "UINT", U32(0)),
                        brp      |-> ConfigField(config, "brp", "UINT", U32(0)),
                        filter   |-> ConfigField(config, "filter", "BYTE", U32(0)),
                        mode     |-> ConfigField(config, "mode", "BYTE", U32(0)),
                        pad      |-> ConfigField(config, "pad", "USHORT", U32(0)),
                        reserved |-> ConfigField(config, "reserved", "UINT", U32(0))]]

\* what InitCanChannel does with the driver's answer: return it as a BigInt
InitOutcome(answer) == [err |-> "none", ret |-> BigIntNew(answer)]

\* answers: what ZCAN_InitCAN can answer
InitCanChannelAnswering(info, answers) ==
    /\ alive
    /\ UNCHANGED <<supplied, rxQueue, subVars>>
    /\ IF DeviceNotOpen
       THEN /\ last' = Throws("initCanChannel", info, "NotOpen")
            /\ UNCHANGED issued
       ELSE IF Len(info) < 2
       THEN /\ last' = Throws("initCanChannel", info, "TypeError")
            /\ UNCHANGED issued
       ELSE \E answer \in answers :
            /\ issued' = IF answer # INVALID_CHANNEL_HANDLE
                         THEN issued \cup {answer} ELSE issued
            /\ last' = Invocation("initCanChannel", info,
                         InitOutcome(answer).err, InitOutcome(answer).ret,
                         <<[fn |-> "ZCAN_InitCAN", dev |-> deviceHandle_,
                            index |-> Uint32Value(info[1]),
                            config |-> BuildInitConfig(info[2]),
                            answer |-> answer]>>)
    /\ UNCHANGED <<deviceHandle_, pProperty_, alive, devOpened, devCloses,
                   propGot, propReleases>>

InitCanChannel(info) == InitCanChannelAnswering(info, ChannelHandleValues)

----------------------------------------------------------------------------
(* Transmit. *)

\* a variant of the copy loop without the "j < MAX" bound
CopyCountUnbounded(length, max) == length

\* the loop bound "j < dataArr.Length() && j < MAX": bytes copied
CopyCount(length, max) == Min(length, max)

\* the data array of a zeroed frame after the copy loop; an index at or past
\* max exists only if the loop wrote there
CopyData(frameObj, max) ==
    LET n == IF Has(frameObj, "data")
             THEN CopyCount(Len(frameObj.f["data"].e), max) ELSE 0
        size == IF n > max THEN n ELSE max
    IN [j \in 0..(size - 1) |->
          IF j < n THEN ToBYTE(Uint32Value(frameObj.f["data"].e[j + 1]))
          ELSE 0]

\* lines 477-488 and 494-505: one ZCAN_Transmit_Data
BuildTransmitData(frameObj) ==
    [frame |-> [can_id |-> Uint32Value(frameObj.f["id"]),
                can_dlc |-> ToBYTE(Uint32Value(frameObj.f["dlc"])),
                data |-> CopyData(frameObj, CAN_MAX_DLEN)],
     transmit_type |-> IF Has(frameObj, "transmitType")
                       THEN Uint32Value(frameObj.f["transmitType"])
                       ELSE U32(0)]

\* lines 567-580 and 586-599: one ZCAN_TransmitFD_Data
BuildTransmitFDData(frameObj) ==
    [frame |-> [can_id |-> Uint32Value(frameObj.f["id"]),
                len |-> ToBYTE(Uint32Value(frameObj.f["len"])),
                flags |-> IF Has(frameObj, "flags")
                          THEN ToBYTE(Uint32Value(frameObj.f["flags"]))
                          ELSE 0,
                data |-> CopyData(frameObj, CANFD_MAX_DLEN)],
     transmit_type |-> IF Has(frameObj, "transmitType")
                       THEN Uint32Value(frameObj.f["transmitType"])
                       ELSE U32(0)]

\* the frames vector built from info[1]: an array's elements in order, or
\* the single frame object
ClassicFrames(arg) ==
    IF arg.t = "Array"
    THEN [i \in 1..Len(arg.e) |-> BuildTransmitData(arg.e[i])]
    ELSE <<BuildTransmitData(arg)>>

FDFrames(arg) ==
    IF arg.t = "Array"
    THEN [i \in 1..Len(arg.e) |-> BuildTransmitFDData(arg.e[i])]
    ELSE <<BuildTransmitFDData(arg)>>

\* the Number returned for the driver's sent count
TransmitResult(sentCount) == JsNum(Num(sentCount))

\* a variant that hands the frames to the driver one call at a time
TransmitCallsPerFrame(fn, h, frames, sentCount) ==
    [i \in 1..Len(frames) |->
        [fn |-> fn, ch |-> h, frames |-> <<frames[i]>>, len |-> 1,
         sent |-> IF i <= sentCount THEN 1 ELSE 0]]

\* the driver calls one transmit makes for the built frames
TransmitCalls(fn, h, frames, sentCount) ==
    <<[fn |-> fn, ch |-> h, frames |-> frames, len |-> Len(frames),
       sent |-> sentCount]>>

TransmitOp(op, fn, info, origin, frames) ==
    /\ alive
    /\ UNCHANGED <<supplied, rxQueue, subVars>>
    /\ IF Len(info) < 2
       THEN last' = Throws(op, ChannelIn(info, origin), "TypeError")
       ELSE \E r \in GetChannelHandleFromValue(info[1]) :
            IF r.exc
            THEN last' = Throws(op, ChannelIn(info, origin), "TypeError")
            ELSE \E sentCount \in 0..Len(frames) :
                 last' = Invocation(op, ChannelIn(info, origin), "none",
                           TransmitResult(sentCount),
                           TransmitCalls(fn, r.h, frames, sentCount))
    /\ UNCHANGED <<deviceHandle_, pProperty_, alive, devOpened, devCloses,
                   propGot, propReleases, issued>>

Transmit(info, origin) ==
    TransmitOp("transmit", "ZCAN_Transmit", info, origin,
               IF Len(info) < 2 THEN <<>> ELSE ClassicFrames(info[2]))

TransmitFD(info, origin) ==
    TransmitOp("transmitFD", "ZCAN_TransmitFD", info, origin,
               IF Len(info) < 2 THEN <<>> ELSE FDFrames(info[2]))

----------------------------------------------------------------------------
(* Receive. *)

DefaultWaitTime == -1

\* Napi::Number::Int32Value: the low 32 bits as a signed integer
Int32Value(n) ==
    IF n.v[2] >= 32768 THEN (n.v[2] - LimbBase) * LimbBase + n.v[1]
    ELSE n.v[2] * LimbBase + n.v[1]

\* min(count, n) for a UINT count
UpTo(count, n) == IF count[2] > 0 \/ count[1] > n THEN n ELSE count[1]

\* what a read outside the frame's data array may yield
StrayBytes == {0, 165}

NoStray == {0}

\* no byte is read when no frame was received
StrayFor(received) == IF received = 0 THEN NoStray ELSE StrayBytes

\* frames[i].frame.data[j]: an index at or past the array's capacity reads
\* memory outside the array
ReadData(data, j, max, stray) == IF j < max THEN data[j] ELSE stray

\* a variant that returns the whole buffer
ReceivedLengthCapacity(len, max) == max

\* Napi::Array::New(env, can_dlc) and the loop "j < can_dlc": the length of
\* the returned data array
ReceivedLength(len, max) == len

ReceivedData(data, len, max, stray) ==
    JsArr([j \in 1..ReceivedLength(len, max) |->
              JsNum(Num(ReadData(data, j - 1, max, stray)))])

\* lines 531-542: the object returned for one ZCAN_Receive_Data
BuildReceived(d, stray) ==
    JsObj([id |-> JsNum(d.frame.can_id),
           dlc |-> JsNum(Num(d.frame.can_dlc)),
           timestamp |-> JsNum(RoundToDouble(d.timestamp)),
           data |-> ReceivedData(d.frame.data, d.frame.can_dlc,
                                 CAN_MAX_DLEN, stray)])

\* lines 625-637: the object returned for one ZCAN_ReceiveFD_Data
BuildReceivedFD(d, stray) ==
    JsObj([id |-> JsNum(d.frame.can_id),
           len |-> JsNum(Num(d.frame.len)),
           flags |-> JsNum(Num(d.frame.flags)),
           timestamp |-> JsNum(RoundToDouble(d.timestamp)),
           data |-> ReceivedData(d.frame.data, d.frame.len,
                                 CANFD_MAX_DLEN, stray)])

\* the frame object of the classic or of the FD receive
BuildFor(kind, d, stray) ==
    IF kind = "classic" THEN BuildReceived(d, stray)
    ELSE BuildReceivedFD(d, stray)

\* the driver hands over the first received frames of its queue, at most
\* count of them
ReceiveOp(op, fn, kind, info, origin) ==
    /\ alive
    /\ UNCHANGED <<supplied, subVars>>
    /\ IF Len(info) < 2
       THEN /\ last' = Throws(op, ChannelIn(info, origin), "TypeError")
            /\ UNCHANGED rxQueue
       ELSE \E r \in GetChannelHandleFromValue(info[1]) :
            IF r.exc
            THEN /\ last' = Throws(op, ChannelIn(info, origin), "TypeError")
                 /\ UNCHANGED rxQueue
            ELSE \E received \in
                       0..UpTo(Uint32Value(info[2]), Len(rxQueue[kind])) :
                 \E stray \in StrayFor(received) :
                 LET frames == SubSeq(rxQueue[kind], 1, received)
                 IN /\ rxQueue' = [rxQueue EXCEPT ![kind] =
                                     SubSeq(@, received + 1, Len(@))]
                    /\ last' = Invocation(op, ChannelIn(info, origin), "none",
                                 JsArr([i \in 1..received |->
                                           BuildFor(kind, frames[i],
                                                    stray)]),
                                 <<[fn |-> fn, ch |-> r.h,
                                    len |-> Uint32Value(info[2]),
                                    wait |-> IF Len(info) > 2
                                             THEN Int32Value(info[3])
                                             ELSE DefaultWaitTime,
                                    frames |-> frames,
                                    received |-> received]>>)
    /\ UNCHANGED <<deviceHandle_, pProperty_, alive, devOpened, devCloses,
                   propGot, propReleases, issued>>

Receive(info, origin) ==
    ReceiveOp("receive", "ZCAN_Receive", "classic", info, origin)

ReceiveFD(info, origin) ==
    ReceiveOp("receiveFD", "ZCAN_ReceiveFD", "fd", info, origin)

----------------------------------------------------------------------------
(* Merged transmit and receive on the device. *)

ZCAN_DT_ZCAN_CAN_CANFD_DATA == 1
ZCAN_DT_ZCAN_ERROR_DATA == 2
ZCAN_DT_ZCAN_BUSUSAGE_DATA == 5

\* lines 663-688 and 693-718: one zeroed ZCANDataObj filled from obj; the
\* union is written only for CAN/CANFD data that comes with a canfdData
\* object (the timestamps passed are below 2^63, where Int64Value has one
\* outcome)
BuildDataObj(obj) ==
    LET dataType == ToBYTE(Uint32Value(obj.f["dataType"]))
        head == [dataType |-> dataType,
                 chnl |-> ToBYTE(Uint32Value(obj.f["chnl"]))]
    IN IF dataType = ZCAN_DT_ZCAN_CAN_CANFD_DATA /\ Has(obj, "canfdData")
       THEN LET c == obj.f["canfdData"]
            IN [dataType |-> head.dataType, chnl |-> head.chnl,
                canfd |->
                  [timeStamp |-> CHOOSE t \in Int64Value(c.f["timestamp"]) :
                                    TRUE,
                   flag |-> IF Has(c, "flag") THEN Uint32Value(c.f["flag"])
                            ELSE U32(0),
                   frame |-> [can_id |-> Uint32Value(c.f["id"]),
                              len |-> ToBYTE(Uint32Value(c.f["len"])),
                              flags |-> IF Has(c, "flags")
                                        THEN ToBYTE(Uint32Value(c.f["flags"]))
                                        ELSE 0,
                              data |-> CopyData(c, CANFD_MAX_DLEN)]]]
       ELSE head

\* the dataObjs vector built from info[1]
DataObjs(arg) ==
    IF arg.t = "Array"
    THEN [i \in 1..Len(arg.e) |-> BuildDataObj(arg.e[i])]
    ELSE <<BuildDataObj(arg)>>

TransmitData(info) ==
    /\ alive
    /\ UNCHANGED <<supplied, rxQueue, subVars>>
    /\ IF DeviceNotOpen
       THEN last' = Throws("transmitData", info, "NotOpen")
       ELSE IF Len(info) < 1
       THEN last' = Throws("transmitData", info, "TypeError")
       ELSE \E sentCount \in 0..Len(DataObjs(info[1])) :
            last' = Invocation("transmitData", info, "none",
                      JsNum(Num(sentCount)),
                      <<[fn |-> "ZCAN_TransmitData", dev |-> deviceHandle_,
                         objs |-> DataObjs(info[1]),
                         len |-> Len(DataObjs(info[1])),
                         sent |-> sentCount]>>)
    /\ UNCHANGED <<deviceHandle_, pProperty_, alive, devOpened, devCloses,
                   propGot, propReleases, issued>>

\* lines 746-789: the object returned for one received ZCANDataObj
BuildReceivedObj(d, stray) ==
    LET head == [dataType |-> JsNum(Num(d.dataType)),
                 chnl |-> JsNum(Num(d.chnl))]
    IN IF d.dataType = ZCAN_DT_ZCAN_CAN_CANFD_DATA
       THEN JsObj([dataType |-> head.dataType, chnl |-> head.chnl,
                   canfdData |->
                     JsObj([timestamp |-> JsNum(RoundToDouble(d.canfd.timeStamp)),
                            flag |-> JsNum(d.canfd.flag),
                            id |-> JsNum(d.canfd.frame.can_id),
                            len |-> JsNum(Num(d.canfd.frame.len)),
                            flags |-> JsNum(Num(d.canfd.frame.flags)),
                            data |-> ReceivedData(d.canfd.frame.data,
                                                  d.canfd.frame.len,
                                                  CANFD_MAX_DLEN, stray)])])
       ELSE IF d.dataType = ZCAN_DT_ZCAN_ERROR_DATA
       THEN JsObj([dataType |-> head.dataType, chnl |-> head.chnl,
                   errData |->
                     JsObj([timestamp |-> JsNum(RoundToDouble(d.err.timeStamp)),
                            errType |-> JsNum(Num(d.err.errType)),
                            errSubType |-> JsNum(Num(d.err.errSubType)),
                            nodeState |-> JsNum(Num(d.err.nodeState)),
                            rxErrCount |-> JsNum(Num(d.err.rxErrCount)),
                            txErrCount |-> JsNum(Num(d.err.txErrCount)),
                            errData |-> JsNum(Num(d.err.errData))])])
       ELSE IF d.dataType = ZCAN_DT_ZCAN_BUSUSAGE_DATA
       THEN JsObj([dataType |-> head.dataType, chnl |-> head.chnl,
                   busUsage |->
                     JsObj([timestampBegin |->
                                JsNum(RoundToDouble(d.bus.nTimeStampBegin)),
                            timestampEnd |->
                                JsNum(RoundToDouble(d.bus.nTimeStampEnd)),
                            chnl |-> JsNum(Num(d.bus.nChnl)),
                            busUsage |-> JsNum(Num(d.bus.nBusUsage)),
                            frameCount |-> JsNum(d.bus.nFrameCount)])])
       ELSE JsObj(head)

\* info[1] is the count, info[2], when given, the wait time
ReceiveData(info) ==
    /\ alive
    /\ UNCHANGED <<supplied, subVars>>
    /\ IF DeviceNotOpen
       THEN /\ last' = Throws("receiveData", info, "NotOpen")
            /\ UNCHANGED rxQueue
       ELSE IF Len(info) < 1
       THEN /\ last' = Throws("receiveData", info, "TypeError")
            /\ UNCHANGED rxQueue
       ELSE \E received \in
                  0..UpTo(Uint32Value(info[1]), Len(rxQueue.merged)) :
            \E stray \in StrayFor(received) :
            LET objs == SubSeq(rxQueue.merged, 1, received)
            IN /\ rxQueue' = [rxQueue EXCEPT !.merged =
                                SubSeq(@, received + 1, Len(@))]
               /\ last' = Invocation("receiveData", info, "none",
                            JsArr([i \in 1..received |->
                                      BuildReceivedObj(objs[i], stray)]),
                            <<[fn |-> "ZCAN_ReceiveData",
                               dev |-> deviceHandle_,
                               len |-> Uint32Value(info[1]),
                               wait |-> IF Len(info) > 1
                                        THEN Int32Value(info[2])
                                        ELSE DefaultWaitTime,
                               objs |-> objs, received |-> received]>>)
    /\ UNCHANGED <<deviceHandle_, pProperty_, alive, devOpened, devCloses,
                   propGot, propReleases, issued>>

----------------------------------------------------------------------------
(* Asynchronous receive subscriptions: subscribe, unsubscribe, closeAll,   *)
(* close, the poll loop of a worker and the delivery to the consumer, as   *)
(* spec.md sections 4.5, 4.6 and 5 describe them.  The wrapper under src/  *)
(* declares no such method.                                                *)

SmallBatchSize == 2

\* the callback of a subscribe call: a new function for each call
NextCallback == Len(subscriptions) + 1

\* a subscription as subscribe creates it: the sink registered, the worker
\* not yet spawned.  stop: the stop flag; worker: where the worker thread is;
\* held: the batch the worker got from its last poll; queue: the batches in
\* the sink, not yet delivered; handed: every batch the driver returned to
\* the poll loop; got: the batches onFrames was invoked with; final: the
\* number of invocations when the sink was released
NewSubscription(h, cb) ==
    [h |-> h, cb |-> cb, stop |-> FALSE, worker |-> "unstarted",
     joined |-> FALSE, sink |-> "live", held |-> <<>>, queue |-> <<>>,
     handed |-> <<>>, got |-> <<>>, final |-> 0]

SubIds == 1..Len(subscriptions)

Registered == {h \in SubHandles : registry[h] # 0}

\* a variant in which the sink is released before the worker is joined
TeardownOrderReleaseFirst == <<"stop", "release", "join">>

\* section 4.6: set stop flag -> join worker thread -> release the sink
TeardownOrder == <<"stop", "join", "release">>

PhaseIndex(phase) == CHOOSE i \in 1..Len(TeardownOrder) :
                        TeardownOrder[i] = phase

\* the consumer's thread starts to tear down the subscription of h
StartTeardown(op, h, cb, todo) ==
    [op |-> op, phase |-> TeardownOrder[1], h |-> h, cb |-> cb,
     id |-> registry[h], todo |-> todo]

\* what the consumer's thread does once a teardown is complete: subscribe
\* goes on to register the new subscription, unsubscribe returns, closeAll
\* and close take the next subscription, and close ends with the driver close
AfterTeardown ==
    IF main.op = "subscribe" THEN [main EXCEPT !.phase = "register", !.id = 0]
    ELSE IF main.todo # {}
    THEN LET h == CHOOSE x \in main.todo : TRUE
         IN StartTeardown(main.op, h, 0, main.todo \ {h})
    ELSE IF main.op = "close" THEN [main EXCEPT !.phase = "driverClose",
                                                !.id = 0]
    ELSE Idle

\* the step after a teardown step
AfterPhase(phase) ==
    IF PhaseIndex(phase) < Len(TeardownOrder)
    THEN [main EXCEPT !.phase = TeardownOrder[PhaseIndex(phase) + 1]]
    ELSE AfterTeardown

\* a variant in which subscribe never tears down the subscription it finds
SubscribeStartKeepOld(h, cb) ==
    [op |-> "subscribe", phase |-> "register", h |-> h, cb |-> cb,
     id |-> 0, todo |-> {}]

\* section 4.5 step 1: an existing subscription of the handle is torn down
\* completely before the new one is created
SubscribeStart(h, cb) ==
    IF registry[h] # 0 THEN StartTeardown("subscribe", h, cb, {})
    ELSE [op |-> "subscribe", phase |-> "register", h |-> h, cb |-> cb,
          id |-> 0, todo |-> {}]

Subscribe(h, cb) ==
    /\ alive
    /\ main = Idle
    /\ Len(subscriptions) < MaxSubs
    /\ main' = SubscribeStart(h, cb)
    /\ UNCHANGED <<registry, subscriptions, pending, misdelivered>>

\* section 4.5 step 2: register the delivery sink
RegisterSink ==
    /\ main.phase = "register"
    /\ subscriptions' = Append(subscriptions, NewSubscription(main.h, main.cb))
    /\ registry' = [registry EXCEPT ![main.h] = Len(subscriptions) + 1]
    /\ main' = [main EXCEPT !.phase = "spawn", !.id = Len(subscriptions) + 1]
    /\ UNCHANGED <<pending, misdelivered>>

\* section 4.5 step 3: spawn the worker; subscribe returns
SpawnWorker ==
    /\ main.phase = "spawn"
    /\ subscriptions' = [subscriptions EXCEPT ![main.id].worker = "check"]
    /\ main' = Idle
    /\ UNCHANGED <<registry, pending, misdelivered>>

Unsubscribe(h) ==
    /\ alive
    /\ main = Idle
    /\ registry[h] # 0
    /\ main' = StartTeardown("unsubscribe", h, 0, {})
    /\ UNCHANGED <<registry, subscriptions, pending, misdelivered>>

\* close found no subscription and goes on to the driver close
ClosingDriver == [Idle EXCEPT !.op = "close", !.phase = "driverClose"]

\* closeAll, and close, which runs closeAll before the driver close
TeardownAll(op) ==
    /\ alive
    /\ main = Idle
    /\ main' = IF Registered = {}
               THEN (IF op = "close" THEN ClosingDriver ELSE Idle)
               ELSE LET h == CHOOSE x \in Registered : TRUE
                    IN StartTeardown(op, h, 0, Registered \ {h})
    /\ UNCHANGED <<registry, subscriptions, pending, misdelivered>>

CloseAll == Registered # {} /\ TeardownAll("closeAll")

Close == TeardownAll("close")

\* teardown step: set the stop flag
SetStopFlag ==
    /\ main.phase = "stop"
    /\ subscriptions' = [subscriptions EXCEPT ![main.id].stop = TRUE]
    /\ main' = AfterPhase("stop")
    /\ UNCHANGED <<registry, pending, misdelivered>>

\* a variant in which join returns whether or not the worker has exited
JoinReturnsAlways(id) == TRUE

\* join blocks until the worker thread has left its loop
JoinReturns(id) == subscriptions[id].worker = "exited"

\* teardown step: join the worker thread
JoinWorker ==
    /\ main.phase = "join"
    /\ JoinReturns(main.id)
    /\ subscriptions' = [subscriptions EXCEPT ![main.id].joined = TRUE]
    /\ main' = AfterPhase("join")
    /\ UNCHANGED <<registry, pending, misdelivered>>

\* teardown step: release the delivery sink; nothing is delivered through
\* it afterwards, and the handle has no subscription
ReleaseSink ==
    /\ main.phase = "release"
    /\ subscriptions' = [subscriptions EXCEPT
                            ![main.id].sink = "released",
                            ![main.id].queue = <<>>,
                            ![main.id].final = Len(subscriptions[main.id].got)]
    /\ registry' = [registry EXCEPT ![main.h] = 0]
    /\ main' = AfterPhase("release")
    /\ UNCHANGED <<pending, misdelivered>>

\* the last step of close: CloseDevice of the wrapper
DriverClose ==
    /\ main.phase = "driverClose"
    /\ CloseDeviceBody
    /\ main' = Idle
    /\ UNCHANGED <<registry, subscriptions, pending, misdelivered>>

\* poll loop, top of an iteration: the stop flag is checked
CheckStopFlag(id) ==
    /\ subscriptions[id].worker = "check"
    /\ subscriptions' = [subscriptions EXCEPT ![id].worker =
                            IF subscriptions[id].stop THEN "exited"
                            ELSE "poll"]
    /\ UNCHANGED <<registry, pending, main, misdelivered>>

\* poll loop: receive(handle, smallBatchSize, 0); the driver returns the
\* frames that have arrived, at most smallBatchSize of them
Poll(id) ==
    /\ subscriptions[id].worker = "poll"
    /\ \E n \in 0..Min(SmallBatchSize, Len(pending[subscriptions[id].h])) :
       LET h == subscriptions[id].h
           batch == SubSeq(pending[h], 1, n)
       IN /\ pending' = [pending EXCEPT ![h] = SubSeq(@, n + 1, Len(@))]
          /\ subscriptions' =
               IF n = 0
               THEN [subscriptions EXCEPT ![id].worker = "check"]
               ELSE [subscriptions EXCEPT
                        ![id].worker = "deliver",
                        ![id].held = batch,
                        ![id].handed = Append(@, batch)]
    /\ UNCHANGED <<registry, main, misdelivered>>

\* a variant in which the worker hands over one frame at a time
SinkEntriesPerFrame(batch) == [i \in 1..Len(batch) |-> <<batch[i]>>]

\* the whole batch goes to the sink in one delivery
SinkEntries(batch) == <<batch>>

\* poll loop: hand the batch to the delivery sink, then sleep until the
\* next iteration
HandOver(id) ==
    /\ subscriptions[id].worker = "deliver"
    /\ IF subscriptions[id].sink = "live"
       THEN /\ subscriptions' = [subscriptions EXCEPT
                                   ![id].worker = "check",
                                   ![id].held = <<>>,
                                   ![id].queue =
                                       @ \o SinkEntries(subscriptions[id].held)]
            /\ UNCHANGED misdelivered
       ELSE /\ subscriptions' = [subscriptions EXCEPT ![id].worker = "check",
                                                      ![id].held = <<>>]
            /\ misdelivered' = TRUE
    /\ UNCHANGED <<registry, pending, main>>

\* section 4.5 step 4: the delivery reaches the consumer's execution
\* context, which is in no other call, and invokes onFrames once
OnFrames(id) ==
    /\ main = Idle
    /\ subscriptions[id].sink = "live"
    /\ subscriptions[id].queue # <<>>
    /\ subscriptions' = [subscriptions EXCEPT
                            ![id].queue = Tail(@),
                            ![id].got = Append(@, Head(subscriptions[id].queue))]
    /\ UNCHANGED <<registry, pending, main, misdelivered>>

\* the steps above leave the object and the driver's other state alone
SubscriptionStep(step) ==
    /\ step
    /\ UNCHANGED <<deviceHandle_, pProperty_, alive, devOpened, devCloses,
                   propGot, propReleases, issued, supplied, rxQueue, last>>

----------------------------------------------------------------------------
(* Inputs. *)

\* channel-handle arguments for the runs that are not about the handle's
\* value: a BigInt, a string
BasicHandleArgs ==
    {[v |-> JsBigInt(<<4096, 0, 0, 0>>), origin |-> <<>>],
     [v |-> JsStr("0x1000"), origin |-> <<>>]}

NoArgsCall == [info |-> <<>>, origin |-> <<>>]
FDTypeArg == JsNum(Num(TYPE_CANFD))

\* calls of a one-argument channel method: without arguments, or with a handle
ChannelCalls(args) ==
    {NoArgsCall}
    \cup {[info |-> <<a.v>>, origin |-> a.origin] : a \in args}

\* calls of getReceiveNum: also with the optional type argument
ReceiveNumCalls(args) ==
    ChannelCalls(args)
    \cup {[info |-> <<a.v, FDTypeArg>>, origin |-> a.origin] :
            a \in args}

ClassicNames == <<"accCode", "accMask", "reserved", "filter", "timing0",
                  "timing1", "mode">>
FDNames == <<"accCode", "accMask", "abitTiming", "dbitTiming", "brp",
             "filter", "mode", "pad", "reserved">>

Range(seq) == {seq[i] : i \in 1..Len(seq)}

ByteOptions == {"filter", "timing0", "timing1", "mode"}

\* the width of the driver field a config option is stored in
WidthOf(name) ==
    IF name \in ByteOptions THEN "BYTE"
    ELSE IF name = "pad" THEN "USHORT" ELSE "UINT"

IndexOf(name) == CHOOSE i \in 1..Len(FDNames \o ClassicNames) :
                    (FDNames \o ClassicNames)[i] = name

\* the Number supplied for an option: zero; a value filling the field's
\* width, different for each option; a value wider than the field
SuppliedValue(seed, name) ==
    IF seed = "zero" THEN Num(0)
    ELSE IF seed = "fit"
    THEN (IF WidthOf(name) = "BYTE" THEN Num(240 + IndexOf(name))
          ELSE IF WidthOf(name) = "USHORT" THEN Num(65280 + IndexOf(name))
          ELSE Limbs(<<IndexOf(name), 65535>>, NumLimbs))
    ELSE (IF WidthOf(name) = "BYTE" THEN Num(256 + 16 + IndexOf(name))
          ELSE IF WidthOf(name) = "USHORT" THEN Num(65536 + IndexOf(name))
          ELSE Limbs(<<IndexOf(name), 0, 1>>, NumLimbs))

Seeds == {"zero", "fit", "wide"}

\* a config object of type canType supplying exactly the options in given
ConfigOf(canType, given, seed) ==
    JsObj([name \in given \cup {"canType"} |->
             IF name = "canType" THEN JsNum(Num(canType))
             ELSE JsNum(SuppliedValue(seed, name))])

\* the subsets of options supplied with a seed: every subset with values
\* that fit; none, one or all of the options with zeros and with wide values
GivenSets(names, seed) ==
    IF seed = "fit" THEN SUBSET Range(names)
    ELSE {{}, Range(names)} \cup {{name} : name \in Range(names)}

AllConfigs ==
    {ConfigOf(TYPE_CAN, c[2], c[1]) :
        c \in UNION {{<<seed, given>> :
                        given \in GivenSets(ClassicNames, seed)} :
                     seed \in Seeds}}
    \cup {ConfigOf(TYPE_CANFD, c[2], c[1]) :
        c \in UNION {{<<seed, given>> :
                        given \in GivenSets(FDNames, seed)} :
                     seed \in Seeds}}

BasicConfig == ConfigOf(TYPE_CAN, {"timing0", "timing1"}, "fit")

IndexOnlyCall == <<JsNum(Num(0))>>
ChannelIndexArg == JsNum(Num(1))

InitCalls(configs) ==
    {IndexOnlyCall} \cup {<<ChannelIndexArg, c>> : c \in configs}

\* a data array of n Numbers seed+1, seed+2, ...
DataArr(n, seed) == JsArr([j \in 1..n |-> JsNum(Num(seed + j))])

\* a frame object; lenName is "dlc" or "len"; dataLen < 0: no data property
FrameObj(lenName, id, dlc, dataLen, seed) ==
    JsObj([name \in {"id", lenName}
                    \cup (IF dataLen < 0 THEN {} ELSE {"data"})
                    \cup (IF seed > 100 THEN {"transmitType", "flags"} ELSE {})
           |-> IF name = "id" THEN JsNum(id)
               ELSE IF name = lenName THEN JsNum(Num(dlc))
               ELSE IF name = "data" THEN DataArr(dataLen, seed)
               ELSE IF name = "transmitType" THEN JsNum(Num(2))
               ELSE JsNum(Num(256 + 1))])

StdId == Num(291)
\* 0x80000123: an extended identifier (CAN_EFF_FLAG set)
ExtId == Limbs(<<291, 32768>>, NumLimbs)

\* declared lengths: within the format, at its maximum, beyond it, and
\* beyond a byte
DeclaredLens(max) == {0, 2, max, max + 1, 256 + 3}

\* data-array lengths: absent, empty, short, full, longer than the format
DataLens(max) == {0 - 1, 0, 3, max} \cup {max + e : e \in 1..MaxExtra}

FrameInputs(lenName, max) ==
    {FrameObj(lenName, IF seed > 100 THEN ExtId ELSE StdId, dlc, n, seed) :
        dlc \in DeclaredLens(max), n \in DataLens(max), seed \in {16, 250}}

\* the frames batches are made of: data longer than the declared length,
\* and data longer than the format
BatchFrames(lenName, max) ==
    <<FrameObj(lenName, StdId, 2, 3, 16),
      FrameObj(lenName, ExtId, max, max + 1, 250),
      FrameObj(lenName, StdId, 0, 0 - 1, 16)>>

RECURSIVE SeqsUpTo(_, _)
SeqsUpTo(S, n) ==
    IF n = 0 THEN {<<>>}
    ELSE LET shorter == SeqsUpTo(S, n - 1)
         IN shorter \cup {Append(q, x) : q \in shorter, x \in S}

\* arrays of at most MaxBatch frames
Batches(lenName, max) ==
    {JsArr(b) : b \in SeqsUpTo(Range(BatchFrames(lenName, max)), MaxBatch)}

\* calls of transmit/transmitFD: with too few arguments, or with a handle
\* and a frame argument
TxCalls(args, frameArgs) ==
    {[info |-> <<a.v>>, origin |-> a.origin] : a \in args}
    \cup {[info |-> <<a.v, f>>, origin |-> a.origin] :
            a \in args, f \in frameArgs}

BasicFrameArg(lenName, max) ==
    JsArr(SubSeq(BatchFrames(lenName, max), 1, 2))

RichFrameArgs(lenName, max) ==
    FrameInputs(lenName, max) \cup Batches(lenName, max)

\* the consumer's arguments: a config object, a classic and an FD frame
\* argument
BasicInput == [config |-> BasicConfig,
               classic |-> BasicFrameArg("dlc", CAN_MAX_DLEN),
               fd |-> BasicFrameArg("len", CANFD_MAX_DLEN)]

ConfigInputs == {[BasicInput EXCEPT !.config = c] : c \in AllConfigs}

FrameArgInputs ==
    {[BasicInput EXCEPT !.classic = f] :
        f \in RichFrameArgs("dlc", CAN_MAX_DLEN)}
    \cup {[BasicInput EXCEPT !.fd = f] :
        f \in RichFrameArgs("len", CANFD_MAX_DLEN)}

\* the data array of a driver frame: seed, seed+1, ...
RxData(max, seed) == [j \in 0..(max - 1) |-> (seed + j) % 256]

\* length bytes of the frames the driver holds: none, fewer than the array,
\* the whole array, more than the array
RxLens(max) == {0, 5, max} \cup {max + e : e \in 1..MaxExtra}

\* a timestamp above 2^53, different for each frame
RxStamp(len) == <<len, 0, 0, 32>>

ClassicRx(len) ==
    [frame |-> [can_id |-> U32(256 + len), can_dlc |-> len,
                data |-> RxData(CAN_MAX_DLEN, len + 1)],
     timestamp |-> RxStamp(len)]

FDRx(len) ==
    [frame |-> [can_id |-> U32(512 + len), len |-> len, flags |-> 1,
                data |-> RxData(CANFD_MAX_DLEN, len + 1)],
     timestamp |-> RxStamp(len)]

ClassicRxQueues ==
    SeqsUpTo({ClassicRx(len) : len \in RxLens(CAN_MAX_DLEN)}, MaxBatch)

FDRxQueues ==
    SeqsUpTo({FDRx(len) : len \in RxLens(CANFD_MAX_DLEN)}, MaxBatch)

\* the data objects the driver holds for the merged receive: CAN FD data
\* within and beyond the data array, error data, bus usage, and a type the
\* wrapper does not decode
ZCAN_DT_ZCAN_GPS_DATA == 3

MergedRx ==
    {[dataType |-> ZCAN_DT_ZCAN_CAN_CANFD_DATA, chnl |-> 1,
      canfd |-> [timeStamp |-> RxStamp(len), flag |-> U32(len),
                 frame |-> FDRx(len).frame]] :
        len \in {5, CANFD_MAX_DLEN + MaxExtra}}
    \cup {[dataType |-> ZCAN_DT_ZCAN_ERROR_DATA, chnl |-> 0,
           err |-> [timeStamp |-> RxStamp(1), errType |-> 2,
                    errSubType |-> 3, nodeState |-> 1, rxErrCount |-> 128,
                    txErrCount |-> 7, errData |-> 9]],
          [dataType |-> ZCAN_DT_ZCAN_BUSUSAGE_DATA, chnl |-> 0,
           bus |-> [nTimeStampBegin |-> RxStamp(2),
                    nTimeStampEnd |-> RxStamp(3), nChnl |-> 1,
                    nBusUsage |-> 4200, nFrameCount |-> U32(70000)]],
          [dataType |-> ZCAN_DT_ZCAN_GPS_DATA, chnl |-> 0]}

MergedRxQueues == SeqsUpTo(MergedRx, MaxBatch)

RxQueues ==
    {[NoFrames EXCEPT !.classic = q] : q \in ClassicRxQueues}
    \cup {[NoFrames EXCEPT !.fd = q] : q \in FDRxQueues}

MergedQueues == {[NoFrames EXCEPT !.merged = q] : q \in MergedRxQueues}

\* count arguments: none, one, a whole batch
RxCounts == {JsNum(Num(n)) : n \in {0, 1, MaxBatch}}

\* a bounded wait-time argument
RxWait == JsNum(Num(50))

RxHandle == JsBigInt(<<4096, 0, 0, 0>>)

\* calls of receive/receiveFD: with too few arguments, with a handle of the
\* wrong type, with a count, with a count and a wait time
RxCalls ==
    {[info |-> <<RxHandle>>, origin |-> <<>>],
     [info |-> <<JsStr("0x1000"), JsNum(Num(1))>>, origin |-> <<>>],
     [info |-> <<RxHandle, JsNum(Num(MaxBatch)), RxWait>>, origin |-> <<>>]}
    \cup {[info |-> <<RxHandle, n>>, origin |-> <<>>] : n \in RxCounts}

\* the same without the variety of counts
BasicRxCalls ==
    {[info |-> <<RxHandle>>, origin |-> <<>>],
     [info |-> <<JsStr("0x1000"), JsNum(Num(1))>>, origin |-> <<>>],
     [info |-> <<RxHandle, JsNum(Num(MaxBatch)), RxWait>>, origin |-> <<>>]}

\* calls of receiveData: without arguments, with a count, with a count and
\* a wait time
RxDataCalls ==
    {<<>>, <<JsNum(Num(1))>>, <<JsNum(Num(MaxBatch)), RxWait>>}

\* arguments of transmitData: a CAN FD data object, and an array of it and
\* of an object of another type
CanfdDataObj ==
    JsObj([dataType |-> JsNum(Num(ZCAN_DT_ZCAN_CAN_CANFD_DATA)),
           chnl |-> JsNum(Num(1)),
           canfdData |-> JsObj([timestamp |-> JsNum(Num(1000)),
                                id |-> JsNum(Num(291)),
                                len |-> JsNum(Num(2)),
                                data |-> DataArr(2, 16)])])

ErrorDataObj ==
    JsObj([dataType |-> JsNum(Num(ZCAN_DT_ZCAN_ERROR_DATA)),
           chnl |-> JsNum(Num(0))])

TxDataCalls ==
    {<<>>, <<CanfdDataObj>>, <<JsArr(<<CanfdDataObj, ErrorDataObj>>)>>}

----------------------------------------------------------------------------
(* Specifications. *)

Init == InitWith({BasicInput})

\* a driver whose channel handles are the sentinel or a small pointer
SmallHandleValues == {INVALID_CHANNEL_HANDLE, <<4096, 0, 0, 0>>}

\* every method of the object
Next ==
    \/ \E info \in OpenArgs : OpenDevice(info)
    \/ CloseDevice
    \/ Destroy
    \/ GetDeviceInfo
    \/ GetDeviceInfoEx
    \/ IsDeviceOnLine
    \/ \E info \in PathArgs : SetValue(info)
    \/ \E info \in PathArgs : GetValue(info)
    \/ GetIProperty
    \/ \E info \in PathArgs : SetPropertyValue(info)
    \/ \E info \in PathArgs : GetPropertyValue(info)
    \/ ReleaseIProperty
    \/ \E info \in InitCalls({supplied.config}) :
          InitCanChannelAnswering(info, SmallHandleValues)
    \/ \E c \in ChannelCalls(BasicHandleArgs) : StartCanChannel(c.info, c.origin)
    \/ \E c \in ChannelCalls(BasicHandleArgs) : ResetCanChannel(c.info, c.origin)
    \/ \E c \in ChannelCalls(BasicHandleArgs) : ClearBuffer(c.info, c.origin)
    \/ \E c \in ChannelCalls(BasicHandleArgs) :
          ReadChannelErrInfo(c.info, c.origin)
    \/ \E c \in ChannelCalls(BasicHandleArgs) :
          ReadChannelStatus(c.info, c.origin)
    \/ \E c \in ReceiveNumCalls(BasicHandleArgs) :
          GetReceiveNum(c.info, c.origin)
    \/ \E c \in TxCalls(BasicHandleArgs, {supplied.classic}) :
          Transmit(c.info, c.origin)
    \/ \E c \in TxCalls(BasicHandleArgs, {supplied.fd}) :
          TransmitFD(c.info, c.origin)
    \/ \E c \in BasicRxCalls : Receive(c.info, c.origin)
    \/ \E c \in BasicRxCalls : ReceiveFD(c.info, c.origin)
    \/ \E info \in TxDataCalls : TransmitData(info)
    \/ \E info \in RxDataCalls : ReceiveData(info)

Spec == Init /\ [][Next]_vars

\* the channel methods, given every representation of a channel handle
NextChan ==
    \/ \E info \in OpenArgs : OpenDevice(info)
    \/ \E info \in InitCalls({supplied.config}) : InitCanChannel(info)
    \/ \E c \in ChannelCalls(HandleArgs) : StartCanChannel(c.info, c.origin)
    \/ \E c \in ChannelCalls(HandleArgs) : ResetCanChannel(c.info, c.origin)
    \/ \E c \in ChannelCalls(HandleArgs) : ClearBuffer(c.info, c.origin)
    \/ \E c \in ChannelCalls(HandleArgs) : ReadChannelErrInfo(c.info, c.origin)
    \/ \E c \in ChannelCalls(HandleArgs) : ReadChannelStatus(c.info, c.origin)
    \/ \E c \in ReceiveNumCalls(HandleArgs) : GetReceiveNum(c.info, c.origin)
    \/ \E c \in TxCalls(HandleArgs, {supplied.classic}) : Transmit(c.info, c.origin)
    \/ \E c \in TxCalls(HandleArgs, {supplied.fd}) : TransmitFD(c.info, c.origin)

SpecChan == Init /\ [][NextChan]_vars

\* channel initialization, the config drawn from every config
InitConfigs == InitWith(ConfigInputs)

OpenBoth == <<JsNum(Num(1)), JsNum(Num(0))>>

NextInit ==
    \/ OpenDevice(OpenBoth)
    \/ \E info \in InitCalls({supplied.config}) : InitCanChannel(info)

SpecInit == InitConfigs /\ [][NextInit]_vars

\* transmit, the frame argument drawn from every frame input
InitFrames == InitWith(FrameArgInputs)

NextTx ==
    \/ \E info \in OpenArgs : OpenDevice(info)
    \/ CloseDevice
    \/ \E c \in TxCalls(BasicHandleArgs, {supplied.classic}) :
          Transmit(c.info, c.origin)
    \/ \E c \in TxCalls(BasicHandleArgs, {supplied.fd}) :
          TransmitFD(c.info, c.origin)

SpecTx == InitFrames /\ [][NextTx]_vars

\* receive, the driver's waiting frames drawn from every queue
InitQueues == InitFrom({BasicInput}, RxQueues)

NextRx ==
    \/ \E c \in RxCalls : Receive(c.info, c.origin)
    \/ \E c \in RxCalls : ReceiveFD(c.info, c.origin)

SpecRx == InitQueues /\ [][NextRx]_vars

\* the merged transmit and receive, the driver's waiting data objects drawn
\* from every queue
InitMerged == InitFrom({BasicInput}, MergedQueues)

NextData ==
    \/ OpenDevice(OpenBoth)
    \/ CloseDevice
    \/ \E info \in TxDataCalls : TransmitData(info)
    \/ \E info \in RxDataCalls : ReceiveData(info)

SpecData == InitMerged /\ [][NextData]_vars

\* the device is opened once, before the first subscribe
BeforeSubscriptions ==
    main = Idle /\ subscriptions = <<>> /\ devOpened = 0

\* the subscriptions: the consumer's thread, the workers and the deliveries
NextSub ==
    \/ BeforeSubscriptions /\ OpenDevice(OpenBoth)
    \/ \E h \in SubHandles : SubscriptionStep(Subscribe(h, NextCallback))
    \/ \E h \in SubHandles : SubscriptionStep(Unsubscribe(h))
    \/ SubscriptionStep(CloseAll)
    \/ SubscriptionStep(Close)
    \/ SubscriptionStep(SetStopFlag)
    \/ SubscriptionStep(JoinWorker)
    \/ SubscriptionStep(ReleaseSink)
    \/ SubscriptionStep(RegisterSink)
    \/ SubscriptionStep(SpawnWorker)
    \/ DriverClose
    \/ \E id \in SubIds : SubscriptionStep(CheckStopFlag(id))
    \/ \E id \in SubIds : SubscriptionStep(Poll(id))
    \/ \E id \in SubIds : SubscriptionStep(HandOver(id))
    \/ \E id \in SubIds : SubscriptionStep(OnFrames(id))

SpecSub == Init /\ [][NextSub]_vars

----------------------------------------------------------------------------
(* Claims about the device lifecycle (checked under Spec). *)

\* the driver calls of the last invocation that went to fn
CallsTo(fn) == {i \in 1..Len(last.calls) : last.calls[i].fn = fn}

\* C1: closeDevice on a Device that is already Closed (never opened, or
\* closed earlier) raises no error, returns false, makes no driver close
\* call and leaves the Device Closed, however often it is repeated.
C1_CloseWhenClosed ==
    (last.op = "closeDevice" /\ last.dev0 = INVALID_DEVICE_HANDLE) =>
        /\ last.err = "none"
        /\ last.ret = JsFalse
        /\ CallsTo("ZCAN_CloseDevice") = {}
        /\ deviceHandle_ = INVALID_DEVICE_HANDLE

\* a second closeDevice after a device was opened and closed
C1_Witness ==
    /\ last.op = "closeDevice"
    /\ last.dev0 = INVALID_DEVICE_HANDLE
    /\ devOpened = 1
    /\ devCloses[1] = 1

\* C2: after closeDevice returns on an Open Device, whatever the driver's
\* close status: a held property handle has been released, the driver close
\* was invoked exactly once, on the handle held on entry, the stored handle
\* is the invalid sentinel, and the result is true exactly when the status
\* was STATUS_OK.
C2_CloseWhenOpen ==
    (last.op = "closeDevice" /\ last.dev0 # INVALID_DEVICE_HANDLE) =>
        /\ last.err = "none"
        /\ pProperty_ = NullProperty
        /\ last.prop0 # NullProperty =>
              /\ Cardinality(CallsTo("ReleaseIProperty")) = 1
              /\ \A i \in CallsTo("ReleaseIProperty") :
                    last.calls[i].prop = last.prop0
        /\ Cardinality(CallsTo("ZCAN_CloseDevice")) = 1
        /\ \A i \in CallsTo("ZCAN_CloseDevice") :
              /\ last.calls[i].dev = last.dev0
              /\ last.ret = JsBool(last.calls[i].status = STATUS_OK)
        /\ deviceHandle_ = INVALID_DEVICE_HANDLE

\* closeDevice on an Open Device holding a property handle, the driver
\* close failing
C2_Witness ==
    /\ last.op = "closeDevice"
    /\ last.dev0 # INVALID_DEVICE_HANDLE
    /\ last.prop0 # NullProperty
    /\ \E i \in CallsTo("ZCAN_CloseDevice") :
          last.calls[i].status = STATUS_ERR

LifecycleOps == {"new", "openDevice", "closeDevice", "~ZlgCanDevice"}

\* C3: every operation other than open and close, invoked while the Device
\* is Closed, fails with NotOpen and makes no call into the driver.
C3_ClosedOpsFailNotOpen ==
    (last.op \notin LifecycleOps /\ last.dev0 = INVALID_DEVICE_HANDLE) =>
        /\ last.err = "NotOpen"
        /\ last.calls = NoCalls

\* C4: over any sequence of operations followed by destruction, every device
\* handle a successful driver open returned is passed to the driver close
\* exactly once: never twice, and once the Device is destroyed never zero
\* times.
C4_EveryHandleClosedOnce ==
    /\ \A h \in 1..MaxOpens : devCloses[h] <= 1
    /\ ~alive => \A h \in 1..devOpened : devCloses[h] = 1

----------------------------------------------------------------------------
(* Claims about channel handles (checked under SpecChan). *)

ChannelOps == {"startCanChannel", "resetCanChannel", "clearBuffer",
               "readChannelErrInfo", "readChannelStatus", "getReceiveNum",
               "transmit", "transmitFD"}

\* C5: channel handles round-trip without narrowing: the value initCanChannel
\* hands to the consumer holds exactly the handle the driver returned, and
\* when a channel operation is given a handle the consumer was handed, in
\* any representation the operation accepts, the driver receives exactly
\* that handle.
C5_HandleRoundTrip ==
    /\ (last.op = "initCanChannel" /\ last.calls # NoCalls) =>
          /\ last.ret.t = "BigInt"
          /\ last.ret.mag = Limbs(last.calls[1].answer, NumLimbs)
    /\ (last.op \in ChannelOps /\ last.in.origin # <<>>
            /\ last.err = "none") =>
          \A i \in 1..Len(last.calls) : last.calls[i].ch = last.in.origin

\* C6: initCanChannel on an Open Device fails with an error, and returns no
\* handle value, whenever the driver's init call returns the sentinel
\* invalid channel handle.
C6_SentinelIsAnError ==
    (last.op = "initCanChannel" /\ last.calls # NoCalls
        /\ last.calls[1].answer = INVALID_CHANNEL_HANDLE) =>
        last.err # "none"

SentinelArg == JsBigInt(INVALID_CHANNEL_HANDLE)

StatusOps == {"startCanChannel", "resetCanChannel", "clearBuffer"}

\* C8: startCanChannel, resetCanChannel and clearBuffer validate the handle
\* first: given the sentinel handle they report failure without invoking
\* the driver; given a handle the driver issued they make exactly one driver
\* call and return true exactly when the driver status is STATUS_OK.
C8_SentinelValidated ==
    (last.op \in StatusOps /\ Len(last.in.args) >= 1) =>
        /\ last.in.args[1] = SentinelArg =>
              /\ last.calls = NoCalls
              /\ last.ret # JsTrue
        /\ (last.in.origin # <<>> /\ last.in.args[1].t = "BigInt") =>
              /\ Len(last.calls) = 1
              /\ last.ret = JsBool(last.calls[1].status = STATUS_OK)

\* C5 (the case at issue): a handle above 2^53 handed back as a Number
C5_Witness ==
    /\ last.op \in ChannelOps
    /\ last.in.origin = HandleAbove53
    /\ Len(last.in.args) >= 1 /\ last.in.args[1].t = "Number"
    /\ last.calls # NoCalls

----------------------------------------------------------------------------
(* Claims about channel initialization (checked under SpecInit). *)

\* the driver struct member an option is stored in
FieldOf(name) ==
    IF name = "accCode" THEN "acc_code"
    ELSE IF name = "accMask" THEN "acc_mask"
    ELSE IF name = "abitTiming" THEN "abit_timing"
    ELSE IF name = "dbitTiming" THEN "dbit_timing"
    ELSE name

\* a supplied Number modulo 2^8, 2^16 or 2^32, the width of its field
Reduced(name, v) ==
    IF WidthOf(name) = "BYTE" THEN <<v[1] % 256, 0>>
    ELSE IF WidthOf(name) = "USHORT" THEN <<v[1], 0>>
    ELSE <<v[1], v[2]>>

DefaultOf(isClassic, name) ==
    IF name = "accMask" THEN <<65535, 65535>>
    ELSE IF isClassic /\ name = "timing1" THEN <<28, 0>>
    ELSE <<0, 0>>

InitReachedDriver ==
    last.op = "initCanChannel" /\ last.calls # NoCalls

SentIsClassic == "can" \in DOMAIN last.calls[1].config

SentVariant == IF SentIsClassic THEN last.calls[1].config.can
               ELSE last.calls[1].config.canfd

ClassicOptions == Range(ClassicNames)
FDOptions == Range(FDNames)

SentNames == IF SentIsClassic THEN ClassicOptions ELSE FDOptions

AbsentDefaulted ==
    \A name \in SentNames \ DOMAIN last.in[2].f :
        SentVariant[FieldOf(name)] = DefaultOf(SentIsClassic, name)

WideFilterConfig == ConfigOf(TYPE_CAN, {"filter"}, "wide")

----------------------------------------------------------------------------
(* Claims about transmit (checked under SpecTx). *)

TxOps == {"transmit", "transmitFD"}

\* a transmit call given a BigInt handle and a frame argument
TxAccepted ==
    /\ last.op \in TxOps
    /\ Len(last.in.args) = 2
    /\ last.in.args[1].t = "BigInt"

\* the frame objects submitted, in order
Submitted == IF last.in.args[2].t = "Array" THEN last.in.args[2].e
             ELSE <<last.in.args[2]>>

LenName == IF last.op = "transmit" THEN "dlc" ELSE "len"
MaxData == IF last.op = "transmit" THEN CAN_MAX_DLEN ELSE CANFD_MAX_DLEN
LenOf(frame) == IF last.op = "transmit" THEN frame.can_dlc ELSE frame.len

\* C9: transmit and transmitFD, given one frame or a batch of n, make exactly
\* one driver transmit call carrying all n frames in submission order, and
\* return the count the driver reports; a count below n raises no error.
C9_OneCallAllFrames ==
    TxAccepted =>
        /\ last.err = "none"
        /\ Len(last.calls) = 1
        /\ last.calls[1].fn = (IF last.op = "transmit" THEN "ZCAN_Transmit"
                               ELSE "ZCAN_TransmitFD")
        /\ last.calls[1].len = Len(Submitted)
        /\ Len(last.calls[1].frames) = Len(Submitted)
        /\ \A i \in 1..Len(Submitted) :
              /\ last.calls[1].frames[i].frame.can_id
                   = <<Submitted[i].f["id"].v[1], Submitted[i].f["id"].v[2]>>
              /\ LenOf(last.calls[1].frames[i].frame)
                   = Submitted[i].f[LenName].v[1] % 256
        /\ last.ret = JsNum(Num(last.calls[1].sent))

\* a batch of two different frames of which the driver accepted one
C9_Witness ==
    /\ TxAccepted
    /\ last.in.args[2].t = "Array"
    /\ Len(Submitted) = 2
    /\ Submitted[1] # Submitted[2]
    /\ Len(last.calls) = 1
    /\ last.calls[1].sent = 1
    /\ last.err = "none"

SuppliedData(frameObj) ==
    IF "data" \in DOMAIN frameObj.f THEN frameObj.f["data"].e ELSE <<>>

\* C10 as stated: in each frame handed to the driver at most the format's
\* maximum of data bytes is copied, and every data byte at an index at or
\* beyond the frame's declared DLC/length is zero.
C10_ZeroBeyondDeclared ==
    (TxAccepted /\ last.calls # NoCalls) =>
        \A i \in 1..Len(Submitted) :
            LET data == last.calls[1].frames[i].frame.data
            IN /\ DOMAIN data = 0..(MaxData - 1)
               /\ \A j \in DOMAIN data :
                     j >= Submitted[i].f[LenName].v[1] => data[j] = 0

\* C10 amended: in each frame handed to the driver the data buffer has the
\* format's maximum size; its first min(supplied data length, maximum) bytes
\* are the supplied bytes modulo 256 and every byte at or beyond that count
\* is zero, whatever the declared DLC/length.
C10_ZeroBeyondCopied ==
    (TxAccepted /\ last.calls # NoCalls) =>
        \A i \in 1..Len(Submitted) :
            LET data == last.calls[1].frames[i].frame.data
                given == SuppliedData(Submitted[i])
            IN /\ DOMAIN data = 0..(MaxData - 1)
               /\ \A j \in DOMAIN data :
                     data[j] = IF j < Len(given) /\ j < MaxData
                               THEN given[j + 1].v[1] % 256 ELSE 0

\* a frame declaring 2 bytes with a data array longer than the format has
\* reached the driver
C10_Witness ==
    /\ TxAccepted /\ last.calls # NoCalls
    /\ last.in.args[2].t = "Object"
    /\ Submitted[1].f[LenName].v[1] = 2
    /\ Len(SuppliedData(Submitted[1])) > MaxData

----------------------------------------------------------------------------
(* Claims about receive (checked under SpecRx). *)

RxOps == {"receive", "receiveFD"}

\* a receive call given a BigInt handle and a count
RxAccepted ==
    /\ last.op \in RxOps
    /\ Len(last.in.args) >= 2
    /\ last.in.args[1].t = "BigInt"

RxMax == IF last.op = "receive" THEN CAN_MAX_DLEN ELSE CANFD_MAX_DLEN
RxLenName == IF last.op = "receive" THEN "dlc" ELSE "len"
RxLenOf(frame) == IF last.op = "receive" THEN frame.can_dlc ELSE frame.len

\* C11: receive and receiveFD return, without raising, exactly the frames
\* the driver reported as received (possibly fewer than the count asked for,
\* possibly none), in the driver buffer's order; each returned frame's data
\* array has the length of that frame's own DLC/length field and holds the
\* bytes of the driver frame's data array at the indices below it.
C11_ReceivedFrames ==
    RxAccepted =>
        /\ last.err = "none"
        /\ Len(last.calls) = 1
        /\ last.ret.t = "Array"
        /\ Len(last.ret.e) = last.calls[1].received
        /\ \A i \in 1..Len(last.ret.e) :
              LET got == last.ret.e[i].f
                  sent == last.calls[1].frames[i].frame
              IN /\ got["id"].v = Limbs(sent.can_id, NumLimbs)
                 /\ got[RxLenName].v = Num(RxLenOf(sent))
                 /\ Len(got["data"].e) = RxLenOf(sent)
                 /\ \A j \in 1..Len(got["data"].e) :
                       j <= RxMax => got["data"].e[j].v = Num(sent.data[j - 1])

\* two frames were asked for and the driver handed over one, of 5 bytes
C11_Witness ==
    /\ RxAccepted
    /\ last.err = "none"
    /\ last.calls[1].len[1] = 2
    /\ last.calls[1].received = 1
    /\ RxLenOf(last.calls[1].frames[1].frame) = 5
    /\ Len(last.ret.e[1].f["data"].e) = 5

----------------------------------------------------------------------------
(* Claims about the status reads (checked under SpecChan). *)

ReadOps == {"readChannelErrInfo", "readChannelStatus", "getReceiveNum"}

\* whether the driver's query failed
QueryFailed(call) ==
    IF call.fn = "ZCAN_GetReceiveNum" THEN call.failed
    ELSE call.status # STATUS_OK

\* C12: readChannelErrInfo, readChannelStatus and getReceiveNum query the
\* driver once on every invocation, and the result is absent (null) exactly
\* when the driver's query failed, so that a failure differs from a
\* successful result of zero.
C12_FailureIsAbsent ==
    (last.op \in ReadOps /\ last.err = "none") =>
        /\ Len(last.calls) = 1
        /\ (last.ret = JsNull) = QueryFailed(last.calls[1])

----------------------------------------------------------------------------
(* Claims about open on an Open Device (checked under Spec). *)

OpenAccepted == last.op = "openDevice" /\ last.err = "none"

\* C17: open() on a Device that is already Open makes one ZCAN_OpenDevice
\* call and no ZCAN_CloseDevice call (the handle held before has still never
\* been closed), stores the driver's answer over the handle held before, and
\* returns false exactly when the answer is the invalid sentinel, in which
\* case the Device is Closed afterwards even if it was Open before.
C17_OpenOverwrites ==
    OpenAccepted =>
        /\ Len(last.calls) = 1
        /\ last.calls[1].fn = "ZCAN_OpenDevice"
        /\ deviceHandle_ = last.calls[1].answer
        /\ last.ret = IF last.calls[1].answer = INVALID_DEVICE_HANDLE
                      THEN JsFalse ELSE JsTrue
        /\ last.ret = JsFalse => deviceHandle_ = INVALID_DEVICE_HANDLE
        /\ last.dev0 # INVALID_DEVICE_HANDLE => devCloses[last.dev0] = 0

\* an open on an Open Device that the driver answered with the sentinel
C17_Witness ==
    /\ OpenAccepted
    /\ last.dev0 # INVALID_DEVICE_HANDLE
    /\ last.calls[1].answer = INVALID_DEVICE_HANDLE
    /\ last.ret = JsFalse
    /\ deviceHandle_ = INVALID_DEVICE_HANDLE

----------------------------------------------------------------------------
(* Claims about the property handle and the device handle (checked under  *)
(* Spec).                                                                  *)

PropertyValueOps == {"setPropertyValue", "getPropertyValue"}

\* C20: in every reachable state a held property handle implies that the
\* Device is Open, so setPropertyValue/getPropertyValue never reach the
\* driver while the Device is Closed.
C20_PropertyImpliesOpen ==
    /\ pProperty_ # NullProperty => deviceHandle_ # INVALID_DEVICE_HANDLE
    /\ (last.op \in PropertyValueOps /\ last.dev0 = INVALID_DEVICE_HANDLE)
          => last.calls = NoCalls

\* a property value written through a held property handle on a Closed Device
C20_Witness ==
    /\ last.op = "setPropertyValue"
    /\ last.dev0 = INVALID_DEVICE_HANDLE
    /\ last.prop0 # NullProperty
    /\ Len(last.calls) = 1

----------------------------------------------------------------------------
(* Claims about rejected invocations (checked under Spec). *)

ArgumentError == last.err = "TypeError"

HandlesUnchanged ==
    /\ deviceHandle_ = last.dev0
    /\ pProperty_ = last.prop0

\* C18: whenever an operation raises an argument error (too few arguments,
\* or a channel handle that is neither a BigInt nor a Number), that
\* invocation made no driver call and the device handle and the property
\* handle are as they were before it.
C18_ArgumentErrorNoEffect ==
    ArgumentError => (last.calls = NoCalls /\ HandlesUnchanged)

\* a receive with a string as channel handle, on an Open Device that holds
\* a property handle
C18_Witness ==
    /\ ArgumentError
    /\ last.op = "receive"
    /\ Len(last.in.args) = 2
    /\ last.dev0 # INVALID_DEVICE_HANDLE
    /\ last.prop0 # NullProperty

DeviceOps == {"getDeviceInfo", "getDeviceInfoEx", "isDeviceOnLine",
              "initCanChannel", "transmitData", "receiveData", "setValue",
              "getValue", "getIProperty"}

OnClosedDevice == last.op \in DeviceOps /\ last.dev0 = INVALID_DEVICE_HANDLE

\* C19: getDeviceInfo, getDeviceInfoEx, isDeviceOnLine, initCanChannel,
\* transmitData, receiveData, setValue, getValue and getIProperty invoked on
\* a Closed Device make no driver call and leave the device handle and the
\* property handle as they were; isDeviceOnLine returns false and the others
\* raise the not-open error.
C19_ClosedDeviceOps ==
    OnClosedDevice =>
        /\ last.calls = NoCalls
        /\ HandlesUnchanged
        /\ IF last.op = "isDeviceOnLine"
           THEN last.err = "none" /\ last.ret = JsFalse
           ELSE last.err = "NotOpen"

\* receiveData with a count and a wait time on a Closed Device
C19_Witness ==
    /\ OnClosedDevice
    /\ last.op = "receiveData"
    /\ Len(last.in) = 2
    /\ last.err = "NotOpen"

----------------------------------------------------------------------------
(* Claims about subscriptions (checked under SpecSub). *)

NotRunning == {"unstarted", "exited"}

\* the worker thread of the subscription exists and has not left its loop
Running(id) == subscriptions[id].worker \notin NotRunning

SubsOf(h) == {id \in SubIds : subscriptions[id].h = h}

TornDown(id) ==
    /\ subscriptions[id].worker = "exited"
    /\ subscriptions[id].joined
    /\ subscriptions[id].sink = "released"

\* subscribe has torn down what it found and is creating the new subscription
CreatingPhases == {"register", "spawn"}

SubscribeCreates ==
    main.op = "subscribe" /\ main.phase \in CreatingPhases

\* C13: at most one subscription (worker thread) exists per channel handle at
\* any time; a subscribe for a handle that has a subscription tears the old
\* one down first, so that the old worker has terminated and been joined
\* before the new subscription is created and before subscribe returns, and
\* the old callback receives nothing once its subscription is torn down.
C13_OneSubscriptionPerHandle ==
    /\ \A h \in SubHandles :
          Cardinality({id \in SubsOf(h) : Running(id)}) <= 1
    /\ SubscribeCreates =>
          \A id \in SubsOf(main.h) : id # main.id => TornDown(id)
    /\ \A h \in SubHandles : \A id \in SubsOf(h) :
          (main = Idle /\ registry[h] # 0 /\ id # registry[h]) => TornDown(id)
    /\ \A id \in SubIds :
          subscriptions[id].sink = "released" =>
              Len(subscriptions[id].got) = subscriptions[id].final

\* subscribe(h, cb1) then subscribe(h, cb2) has returned, and each callback
\* has received frames
C13_Witness ==
    /\ main = Idle
    /\ Len(subscriptions) = 2
    /\ subscriptions[1].h = subscriptions[2].h
    /\ registry[subscriptions[2].h] = 2
    /\ Running(2)
    /\ subscriptions[1].got # <<>>
    /\ subscriptions[2].got # <<>>

\* C14: every teardown sets the stop flag, then joins the worker thread, then
\* releases the delivery sink: in no reachable state is a sink released while
\* its worker is still running, and no worker ever delivers through a
\* released sink.
C14_TeardownOrder ==
    /\ ~misdelivered
    /\ \A id \in SubIds :
          /\ subscriptions[id].sink = "released" =>
                (subscriptions[id].joined /\ ~Running(id))
          /\ subscriptions[id].joined =>
                (subscriptions[id].stop /\ subscriptions[id].worker = "exited")

\* a subscription whose worker had polled frames, torn down by unsubscribe
C14_Witness ==
    /\ main = Idle
    /\ Len(subscriptions) = 1
    /\ TornDown(1)
    /\ subscriptions[1].stop
    /\ subscriptions[1].handed # <<>>

RECURSIVE Flatten(_)
Flatten(batches) ==
    IF batches = <<>> THEN <<>>
    ELSE Head(batches) \o Flatten(Tail(batches))

IsPrefix(a, b) == Len(a) <= Len(b) /\ a = SubSeq(b, 1, Len(a))

\* the batch the worker has polled and not yet handed to its sink
InHand(id) ==
    IF subscriptions[id].worker = "deliver"
    THEN <<subscriptions[id].held>> ELSE <<>>

\* the frames the poll loops of a channel have got, in the order of its
\* subscriptions
PolledOn(h) ==
    Flatten([id \in SubIds |->
                IF subscriptions[id].h = h
                THEN Flatten(subscriptions[id].handed) ELSE <<>>])

----------------------------------------------------------------------------
(* The life of a property handle. *)

\* the property handles the driver has handed out so far
PropertiesObtained == 1..propGot

\* the handles obtained from the driver and not yet given back to it
PropertiesOutstanding == {p \in PropertiesObtained : propReleases[p] = 0}

\* no handle is outstanding
NoneOutstanding == {}

\* the property handle a setPropertyValue/getPropertyValue call was made on
PropertiesUsed == {last.calls[i].prop : i \in 1..Len(last.calls)}

\* C21: over any sequence of getIProperty, releaseIProperty, close, property
\* get/set calls and destruction, the Device holds at most one property
\* handle at a time: the handle it holds is the only one not yet released,
\* every other handle obtained from the driver has been released exactly once
\* (a second getIProperty releases the previous one first), none is released
\* twice, a destroyed Device has released them all, and setPropertyValue and
\* getPropertyValue never use a released handle.
C21_PropertyHandleLifecycle ==
    /\ \A p \in PropertiesObtained : propReleases[p] <= 1
    /\ PropertiesOutstanding =
          (IF pProperty_ = NullProperty THEN NoneOutstanding
           ELSE {pProperty_})
    /\ ~alive => PropertiesOutstanding = NoneOutstanding
    /\ last.op \in PropertyValueOps =>
          \A p \in PropertiesUsed : /\ p = last.prop0
                                    /\ p \in PropertiesOutstanding

\* a second getIProperty has released the handle held before and holds the
\* one the driver answered with
C21_Witness ==
    /\ last.op = "getIProperty"
    /\ last.prop0 = 1
    /\ pProperty_ = 2
    /\ propReleases[1] = 1
    /\ propReleases[2] = 0

\* a property value read through the second handle after the first was
\* released, and the Device then destroyed
C21_WitnessDestroyed ==
    /\ ~alive
    /\ propGot = 2
    /\ propReleases[1] = 1
    /\ propReleases[2] = 1

----------------------------------------------------------------------------
(* Claims about the bytes a receive reads (checked under SpecRx; the merged *)
(* receive under SpecData).                                                 *)

ReceiveOps == {"receive", "receiveFD", "receiveData"}

\* the positions of the returned objects that carry a data array
WithData ==
    IF last.op = "receiveData"
    THEN {i \in 1..Len(last.ret.e) : Has(last.ret.e[i], "canfdData")}
    ELSE 1..Len(last.ret.e)

\* the data array of the i-th returned object
DataReturned(i) ==
    IF last.op = "receiveData" THEN last.ret.e[i].f["canfdData"].f["data"].e
    ELSE last.ret.e[i].f["data"].e

\* a call that returned no array
NoArrays == {}

\* the data arrays the last receive returned; the loop "j < can_dlc" reads
\* frame.data[j] for every index j of the array it returns
DataArraysReturned ==
    IF last.op \in ReceiveOps /\ last.err = "none"
    THEN {DataReturned(i) : i \in WithData}
    ELSE NoArrays

\* C22: for every frame the driver returns, whatever the value of its
\* DLC/length byte, receive, receiveFD and receiveData read only data
\* indices below the capacity of the frame's buffer (8 for classic, 64 for
\* FD).
C22_ReadsWithinCapacity ==
    \A data \in DataArraysReturned : Len(data) <= RxMax

\* receive returned a frame whose DLC byte is 9: the ninth element of its
\* data array was read past the end of the 8-byte buffer
C22_Witness ==
    /\ last.op = "receive"
    /\ last.err = "none"
    /\ \E data \in DataArraysReturned :
          /\ Len(data) = CAN_MAX_DLEN + 1
          /\ data[CAN_MAX_DLEN + 1].v = Num(165)

\* receiveData returned a CAN FD frame of length 65
C22_WitnessMerged ==
    /\ last.op = "receiveData"
    /\ \E data \in DataArraysReturned : Len(data) = CANFD_MAX_DLEN + 1

====
